---- MODULE Spec2Model ----
(***************************************************************************)
(* Model of the resilient extraction pipeline of the Terabox bot:          *)
(*   extractors/__init__.py   ExtractorManager (the orchestrator)          *)
(*   utils/rate_limiter.py    RateLimitBucket, RateLimiter                 *)
(*   utils/cache_manager.py   CacheEntry, MemoryCache, CacheManager        *)
(*                                                                         *)
(* Time.  time.time() is the variable now, counted in units of the poll    *)
(* interval of wait_and_acquire (asyncio.sleep(0.5)), i.e. half seconds.   *)
(* Durations the code gives in seconds are multiplied by TicksPerSecond.   *)
(*                                                                         *)
(* Tokens.  RateLimitBucket.tokens is a float; the model keeps it exactly, *)
(* as an integer number of 1/Scale tokens, with Scale chosen so that both  *)
(* refill rates (RATE_LIMIT_REQUESTS / RATE_LIMIT_PERIOD per second and    *)
(* USER_RATE_LIMIT / 60 per second) are whole numbers of units per tick.   *)
(* Floating point rounding is not modelled.                                *)
(*                                                                         *)
(* Tasks.  extract is a coroutine; several calls run as asyncio tasks.     *)
(* Each task is cut at the stages of extract; every stage is one action.   *)
(* Under Spec the calls follow one another in one task (Runners).          *)
(***************************************************************************)
EXTENDS Integers, Sequences, FiniteSets, TLC

\* ------------------------------------------------------------------ bounds
\* The clock advances TickLen units at a time and stops at MaxNow.
TickLen == 10
MaxNow == 30
\* Number of extract calls started in one behaviour.
MaxCalls == 3
\* config.py:149-151,156: deployment parameters read from the environment
\* (defaults 30, 60, 10 and 10000).  The model instantiates them with small
\* values, so that exhaustion, refill and eviction happen within MaxCalls
\* calls and MaxNow ticks: the global bucket holds 2 tokens and gains one
\* every 5 seconds, a caller's bucket holds 2 and gains one every 30 seconds.
RATE_LIMIT_REQUESTS == 2
RATE_LIMIT_PERIOD == 10
USER_RATE_LIMIT == 2
CACHE_MAX_SIZE == 1

\* --------------------------------------------------------------- constants
\* config.py:155,154
CACHE_TTL == 3600
CACHE_ENABLED == TRUE
\* rate_limiter.py:63  refill_rate=USER_RATE_LIMIT / 60
USER_PERIOD == 60
\* rate_limiter.py:88  asyncio.sleep(0.5): one tick is half a second
TicksPerSecond == 2
SLEEP_TICKS == 1
\* extractors/__init__.py:37  wait_and_acquire(user_id, timeout=10)
EXTRACT_TIMEOUT == 10
\* extractors/__init__.py:53  cache_manager.set(cache_key, result, ttl=3600)
EXTRACT_TTL == 3600

\* proxy_manager.py:133  `now - ...get(p.url, 0) > 5`, seconds
COOLDOWN == 5
\* proxy_manager.py:139  `alive_proxies[:max(5, len(alive_proxies) // 4)]`
TOP_MIN == 5
TOP_FRACTION == 4
\* proxy_manager.py:32-33  weights of the score in tenths, and the response
\* time in seconds at which the speed score reaches 0
SUCCESS_WEIGHT == 7
SPEED_WEIGHT == 3
SLOWEST == 10
\* proxy_manager.py:162  `proxy.fail_count > 5 and proxy.score < 0.3`
DEAD_FAILS == 5
\* config.py:139
USE_PROXY == TRUE
\* config.py:146
CUSTOM_PROXIES == << >>
\* proxy_manager.py:87  self.proxies[:50]
PROBE_LIMIT == 50

Min(a, b) == IF a <= b THEN a ELSE b
Max(a, b) == IF a >= b THEN a ELSE b

\* Units of one token; refill rates below are units per tick.
Scale == TicksPerSecond * RATE_LIMIT_PERIOD * USER_PERIOD

\* ------------------------------------------------------------------ inputs
Tasks == {"t1", "t2"}
\* The tasks that run calls under Spec.
Runners == {"t1"}

\* user_id: bot.py:134 passes message.from_user.id, a positive integer.
UserIds == {1, 2}

\* A URL as urlparse sees it: the labels of its netloc, and its path.
Urls ==
    { [netloc |-> <<"www", "terabox", "com">>, path |-> "/s/1a"],
      [netloc |-> <<"1024tera", "com">>, path |-> "/s/1b"],
      [netloc |-> <<"example", "org">>, path |-> "/s/1a"] }

\* Two of the entries of config.TERABOX_DOMAINS.
TERABOX_DOMAINS == { <<"terabox", "com">>, <<"1024tera", "com">> }

\* str(e) of the exceptions a strategy may raise ("" is str(Exception()),
\* and also str(asyncio.TimeoutError())).
ExcMsgs == {"", "e1"}

\* ------------------------------------------------------ RateLimitBucket
\* rate_limiter.py:46-51  the global bucket built by RateLimiter.__init__
NewGlobalBucket(t) ==
    [ tokens      |-> RATE_LIMIT_REQUESTS * Scale,
      last_update |-> t,
      max_tokens  |-> RATE_LIMIT_REQUESTS * Scale,
      refill_rate |-> RATE_LIMIT_REQUESTS * USER_PERIOD ]

\* Variant of _get_user_bucket: a new bucket starts empty.
NewUserBucketEmpty(t) ==
    [ tokens      |-> 0,
      last_update |-> t,
      max_tokens  |-> USER_RATE_LIMIT * Scale,
      refill_rate |-> USER_RATE_LIMIT * RATE_LIMIT_PERIOD ]

\* rate_limiter.py:59-64  a bucket built by _get_user_bucket
NewUserBucket(t) ==
    [ tokens      |-> USER_RATE_LIMIT * Scale,
      last_update |-> t,
      max_tokens  |-> USER_RATE_LIMIT * Scale,
      refill_rate |-> USER_RATE_LIMIT * RATE_LIMIT_PERIOD ]

\* Variant of consume: `if self.tokens > tokens`.
consume_strict(bucket, t) ==
    LET elapsed == t - bucket.last_update
        filled  == Min(bucket.max_tokens,
                       bucket.tokens + elapsed * bucket.refill_rate)
    IN  IF filled > Scale
        THEN [ ok |-> TRUE,
               bucket |-> [bucket EXCEPT !.tokens = filled - Scale,
                                         !.last_update = t] ]
        ELSE [ ok |-> FALSE,
               bucket |-> [bucket EXCEPT !.tokens = filled,
                                         !.last_update = t] ]

\* Variant of consume: `self.tokens -= tokens` comes before the test.
consume_unchecked(bucket, t) ==
    LET elapsed == t - bucket.last_update
        filled  == Min(bucket.max_tokens,
                       bucket.tokens + elapsed * bucket.refill_rate)
    IN  [ ok |-> filled >= Scale,
          bucket |-> [bucket EXCEPT !.tokens = filled - Scale,
                                    !.last_update = t] ]

\* RateLimitBucket.consume(tokens=1): the result and the bucket afterwards.
consume(bucket, t) ==
    LET elapsed == t - bucket.last_update
        filled  == Min(bucket.max_tokens,
                       bucket.tokens + elapsed * bucket.refill_rate)
    IN  IF filled >= Scale
        THEN [ ok |-> TRUE,
               bucket |-> [bucket EXCEPT !.tokens = filled - Scale,
                                         !.last_update = t] ]
        ELSE [ ok |-> FALSE,
               bucket |-> [bucket EXCEPT !.tokens = filled,
                                         !.last_update = t] ]

\* ---------------------------------------------------------- RateLimiter
\* RateLimiter._get_user_bucket: the map after the lookup.
get_user_bucket(buckets, user_id, t) ==
    IF user_id \in DOMAIN buckets
    THEN buckets
    ELSE buckets @@ (user_id :> NewUserBucket(t))

\* `if user_id:`  None and 0 are falsy; 0 stands for both.
Truthy(user_id) == user_id # 0

\* Variant of acquire: the global token is not given back when the
\* caller's bucket refuses.
acquire_no_refund(gb, buckets, user_id, t) ==
    LET g == consume(gb, t)
    IN  IF ~g.ok
        THEN [ ok |-> FALSE, global_bucket |-> g.bucket, user_buckets |-> buckets ]
        ELSE IF Truthy(user_id)
        THEN LET got == get_user_bucket(buckets, user_id, t)
                 u   == consume(got[user_id], t)
             IN  [ ok |-> u.ok,
                   global_bucket |-> g.bucket,
                   user_buckets  |-> [got EXCEPT ![user_id] = u.bucket] ]
        ELSE [ ok |-> TRUE, global_bucket |-> g.bucket, user_buckets |-> buckets ]

\* Variant of acquire: for a caller with a user_id the caller's bucket alone
\* decides, whatever the global bucket answered.
acquire_caller_decides(gb, buckets, user_id, t) ==
    LET g == consume(gb, t)
    IN  IF Truthy(user_id)
        THEN LET got == get_user_bucket(buckets, user_id, t)
                 u   == consume(got[user_id], t)
             IN  [ ok |-> u.ok,
                   global_bucket |-> g.bucket,
                   user_buckets  |-> [got EXCEPT ![user_id] = u.bucket] ]
        ELSE [ ok |-> g.ok, global_bucket |-> g.bucket, user_buckets |-> buckets ]

\* Variant of acquire: the caller's bucket is looked up, and created, but
\* never consumed.
acquire_skips_caller(gb, buckets, user_id, t) ==
    LET g == consume(gb, t)
    IN  IF ~g.ok
        THEN [ ok |-> FALSE, global_bucket |-> g.bucket, user_buckets |-> buckets ]
        ELSE [ ok |-> TRUE, global_bucket |-> g.bucket,
               user_buckets |-> IF Truthy(user_id)
                                THEN get_user_bucket(buckets, user_id, t)
                                ELSE buckets ]

\* RateLimiter.acquire: the result and both bucket stores afterwards.  The
\* body holds the lock and has no await: it is atomic.
acquire(gb, buckets, user_id, t) ==
    LET g == consume(gb, t)
    IN  IF ~g.ok
        THEN [ ok |-> FALSE, global_bucket |-> g.bucket, user_buckets |-> buckets ]
        ELSE IF Truthy(user_id)
        THEN LET got == get_user_bucket(buckets, user_id, t)
                 u   == consume(got[user_id], t)
             IN  IF ~u.ok
                 THEN [ ok |-> FALSE,
                        global_bucket |-> [g.bucket EXCEPT !.tokens = @ + Scale],
                        user_buckets  |-> [got EXCEPT ![user_id] = u.bucket] ]
                 ELSE [ ok |-> TRUE,
                        global_bucket |-> g.bucket,
                        user_buckets  |-> [got EXCEPT ![user_id] = u.bucket] ]
        ELSE [ ok |-> TRUE, global_bucket |-> g.bucket, user_buckets |-> buckets ]

\* Variant of the loop test: `while True`.
within_timeout_forever(t, start, timeout) == TRUE

\* wait_and_acquire: `while time.time() - start < timeout`
within_timeout(t, start, timeout) == t - start < timeout * TicksPerSecond

\* ---------------------------------------------------------- MemoryCache
\* The OrderedDict is a sequence of <<key, entry>> pairs, oldest first.
\* Variant of is_expired: the comparison is the wrong way round.
is_expired_inverted(entry, t) == t - entry.created_at < entry.ttl * TicksPerSecond

\* Variant of is_expired: an entry never expires.
is_expired_never(entry, t) == FALSE

\* CacheEntry.is_expired
is_expired(entry, t) == t - entry.created_at > entry.ttl * TicksPerSecond

KeyIndex(cache, key) ==
    IF \E i \in 1..Len(cache) : cache[i].key = key
    THEN CHOOSE i \in 1..Len(cache) : cache[i].key = key
    ELSE 0

RemoveAt(seq, i) == SubSeq(seq, 1, i - 1) \o SubSeq(seq, i + 1, Len(seq))

\* Variant of get: an expired entry is removed without a miss being counted.
cache_get_uncounted(cache, stats, key, t) ==
    LET i == KeyIndex(cache, key)
    IN  IF ~CACHE_ENABLED
        THEN [ value |-> <<>>, cache |-> cache, stats |-> stats ]
        ELSE IF i = 0
        THEN [ value |-> <<>>, cache |-> cache,
               stats |-> [stats EXCEPT !.misses = @ + 1] ]
        ELSE IF is_expired(cache[i], t)
        THEN [ value |-> <<>>, cache |-> RemoveAt(cache, i), stats |-> stats ]
        ELSE [ value |-> <<cache[i].value>>,
               cache |-> Append(RemoveAt(cache, i),
                                [cache[i] EXCEPT !.hits = @ + 1]),
               stats |-> [stats EXCEPT !.hits = @ + 1] ]

\* MemoryCache.get: value is <<>> for None, <<v>> for a value.
cache_get(cache, stats, key, t) ==
    LET i == KeyIndex(cache, key)
    IN  IF ~CACHE_ENABLED
        THEN [ value |-> <<>>, cache |-> cache, stats |-> stats ]
        ELSE IF i = 0
        THEN [ value |-> <<>>, cache |-> cache,
               stats |-> [stats EXCEPT !.misses = @ + 1] ]
        ELSE IF is_expired(cache[i], t)
        THEN [ value |-> <<>>, cache |-> RemoveAt(cache, i),
               stats |-> [stats EXCEPT !.misses = @ + 1] ]
        ELSE [ value |-> <<cache[i].value>>,
               cache |-> Append(RemoveAt(cache, i),
                                [cache[i] EXCEPT !.hits = @ + 1]),
               stats |-> [stats EXCEPT !.hits = @ + 1] ]

\* Variant of the loop: `while len(self.cache) > self.max_size`.
RECURSIVE PopOldestLate(_, _)
PopOldestLate(cache, max_size) ==
    IF Len(cache) > max_size /\ Len(cache) > 0
    THEN PopOldestLate(Tail(cache), max_size)
    ELSE cache

\* `while len(self.cache) >= self.max_size: self.cache.popitem(last=False)`
RECURSIVE PopOldest(_, _)
PopOldest(cache, max_size) ==
    IF Len(cache) >= max_size /\ Len(cache) > 0
    THEN PopOldest(Tail(cache), max_size)
    ELSE cache

\* Variant of set: the entry is never stored.
cache_set_dropped(cache, key, value, ttl, t) == PopOldest(cache, CACHE_MAX_SIZE)

\* Variant of set: `self.cache.setdefault(key, CacheEntry(...))`, a key the
\* cache holds keeps its entry.
memory_set_default(cache, max_size, default_ttl, key, value, ttl, t) ==
    LET kept  == PopOldest(cache, max_size)
        entry == [ key |-> key, value |-> value, created_at |-> t,
                   ttl |-> IF ttl # 0 THEN ttl ELSE default_ttl, hits |-> 0 ]
    IN  IF KeyIndex(kept, key) = 0 THEN Append(kept, entry) ELSE kept

\* MemoryCache.set of a cache built with max_size and default_ttl: assigning
\* to a key the OrderedDict holds keeps its place.  ttl 0 stands for None.
memory_set(cache, max_size, default_ttl, key, value, ttl, t) ==
    LET kept  == PopOldest(cache, max_size)
        i     == KeyIndex(kept, key)
        entry == [ key |-> key, value |-> value, created_at |-> t,
                   ttl |-> IF ttl # 0 THEN ttl ELSE default_ttl, hits |-> 0 ]
    IN  IF ~CACHE_ENABLED THEN cache
        ELSE IF i = 0 THEN Append(kept, entry)
        ELSE [kept EXCEPT ![i] = entry]

\* Variant of cache_manager.set: `if key not in self.memory_cache.cache`,
\* the first result written under a key stays.
cache_set_keeping(cache, key, value, ttl, t) ==
    IF KeyIndex(cache, key) # 0 THEN cache
    ELSE memory_set(cache, CACHE_MAX_SIZE, CACHE_TTL, key, value, ttl, t)

\* cache_manager.set: the set of its memory cache, which CacheManager
\* builds with CACHE_MAX_SIZE and CACHE_TTL.
cache_set(cache, key, value, ttl, t) ==
    memory_set(cache, CACHE_MAX_SIZE, CACHE_TTL, key, value, ttl, t)

\* MemoryCache.delete
memory_delete(cache, key) ==
    IF KeyIndex(cache, key) # 0 THEN RemoveAt(cache, KeyIndex(cache, key))
    ELSE cache

\* ----------------------------------------------------------- ProxyManager
\* Number of calls made to the proxy manager in one behaviour.
MaxPoolOps == 3

\* avg_response_time is a float of seconds; report_success halves it, at
\* most MaxPoolOps times: the model keeps it exactly, in units of 1/LatScale
\* second.
LatScale == 2 ^ MaxPoolOps

\* A float the code computes or compares, as an exact fraction <<num, den>>
\* with den > 0.
Less(a, b) == a[1] * b[2] < b[1] * a[2]

\* Proxy(url=url): the dataclass defaults.
Proxy(u) ==
    [ url |-> u, last_used |-> 0, success_count |-> 0, fail_count |-> 0,
      avg_response_time |-> 0, is_alive |-> TRUE ]

\* Variant of score: the speed score is not clamped at 0.
score_unclamped(p) ==
    LET n     == p.success_count + p.fail_count
        T     == SLOWEST * LatScale
        speed == T - p.avg_response_time
    IN  IF n = 0 THEN <<1, 2>>
        ELSE << SUCCESS_WEIGHT * p.success_count * T + SPEED_WEIGHT * speed * n,
                10 * n * T >>

\* Proxy.score:  success_rate * 0.7 + speed_score * 0.3, over the common
\* denominator 10 * n * T.
score(p) ==
    LET n     == p.success_count + p.fail_count
        T     == SLOWEST * LatScale
        speed == Max(0, T - p.avg_response_time)
    IN  IF n = 0 THEN <<1, 2>>
        ELSE << SUCCESS_WEIGHT * p.success_count * T + SPEED_WEIGHT * speed * n,
                10 * n * T >>

\* list.sort(key=lambda p: p.score, reverse=True): stable, so an element
\* stays behind the elements before it that score as much or more.
RECURSIVE InsertByScore(_, _)
InsertByScore(p, sorted) ==
    IF sorted = << >> THEN <<p>>
    ELSE IF Less(score(Head(sorted)), score(p)) THEN <<p>> \o sorted
    ELSE <<Head(sorted)>> \o InsertByScore(p, Tail(sorted))

RECURSIVE SortByScore(_)
SortByScore(list) ==
    IF list = << >> THEN << >>
    ELSE InsertByScore(list[Len(list)],
                       SortByScore(SubSeq(list, 1, Len(list) - 1)))

\* `self.domain_cooldowns[domain].get(p.url, 0)` and the test `now - ... > 5`.
\* time.time() is seconds since 1970, so a proxy never selected for the
\* domain (the default 0) passes the test.
off_cooldown(cooldowns, domain, u, t) ==
    \/ u \notin DOMAIN cooldowns[domain]
    \/ t - cooldowns[domain][u] > COOLDOWN * TicksPerSecond

\* Variant of get_proxy: when no proxy is alive the pool is taken as it is,
\* without the loop that sets is_alive.
get_proxy_no_revival(pool, cooldowns, domain, t) ==
    LET IsAlive(p) == p.is_alive
        alive     == SelectSeq(pool, IsAlive)
        all_dead  == alive = << >>
        alive_proxies == IF all_dead THEN pool ELSE alive
        IsOff(p)  == off_cooldown(cooldowns, domain, p.url, t)
        available == IF domain # "" THEN SelectSeq(alive_proxies, IsOff)
                     ELSE << >>
        narrowed  == domain # "" /\ available # << >>
        sorted    == SortByScore(IF narrowed THEN available ELSE alive_proxies)
        top       == SubSeq(sorted, 1,
                            Min(Len(sorted),
                                Max(TOP_MIN, Len(sorted) \div TOP_FRACTION)))
    IN  [ proxies |-> IF all_dead /\ ~narrowed THEN sorted ELSE pool,
          top |-> top ]

\* Variant of the cooldown filter: it is skipped.
get_proxy_no_cooldown(pool, cooldowns, domain, t) ==
    LET IsAlive(p) == p.is_alive
        alive    == SelectSeq(pool, IsAlive)
        revived  == [i \in 1..Len(pool) |-> [pool[i] EXCEPT !.is_alive = TRUE]]
        sorted   == SortByScore(IF alive = << >> THEN revived ELSE alive)
        top      == SubSeq(sorted, 1,
                           Min(Len(sorted),
                               Max(TOP_MIN, Len(sorted) \div TOP_FRACTION)))
    IN  [ proxies |-> IF alive = << >> THEN sorted ELSE pool, top |-> top ]

\* Variant of get_proxy: random.choice is given every sorted candidate.
get_proxy_untruncated(pool, cooldowns, domain, t) ==
    LET IsAlive(p) == p.is_alive
        alive     == SelectSeq(pool, IsAlive)
        revived   == [i \in 1..Len(pool) |-> [pool[i] EXCEPT !.is_alive = TRUE]]
        all_dead  == alive = << >>
        alive_proxies == IF all_dead THEN revived ELSE alive
        IsOff(p)  == off_cooldown(cooldowns, domain, p.url, t)
        available == IF domain # "" THEN SelectSeq(alive_proxies, IsOff)
                     ELSE << >>
        narrowed  == domain # "" /\ available # << >>
        sorted    == SortByScore(IF narrowed THEN available ELSE alive_proxies)
    IN  [ proxies |-> IF all_dead
                      THEN (IF narrowed THEN revived ELSE sorted)
                      ELSE pool,
          top |-> sorted ]

\* get_proxy up to random.choice, lines 122-139: the pool afterwards (all
\* revived if none was alive; sorted in place when alive_proxies is the
\* pool itself) and top_proxies.  domain "" stands for None.
get_proxy(pool, cooldowns, domain, t) ==
    LET IsAlive(p) == p.is_alive
        alive     == SelectSeq(pool, IsAlive)
        revived   == [i \in 1..Len(pool) |-> [pool[i] EXCEPT !.is_alive = TRUE]]
        all_dead  == alive = << >>
        alive_proxies == IF all_dead THEN revived ELSE alive
        IsOff(p)  == off_cooldown(cooldowns, domain, p.url, t)
        available == IF domain # "" THEN SelectSeq(alive_proxies, IsOff)
                     ELSE << >>
        narrowed  == domain # "" /\ available # << >>
        sorted    == SortByScore(IF narrowed THEN available ELSE alive_proxies)
        top       == SubSeq(sorted, 1,
                            Min(Len(sorted),
                                Max(TOP_MIN, Len(sorted) \div TOP_FRACTION)))
    IN  [ proxies |-> IF all_dead
                      THEN (IF narrowed THEN revived ELSE sorted)
                      ELSE pool,
          top |-> top ]

\* The first proxy of the pool whose url is u, 0 if there is none.
ProxyIndex(pool, u) ==
    IF \E i \in 1..Len(pool) : pool[i].url = u
    THEN CHOOSE i \in 1..Len(pool) :
            /\ pool[i].url = u
            /\ \A j \in 1..(i - 1) : pool[j].url # u
    ELSE 0

\* report_success(proxy_url, response_time): response_time 0 stands for
\* None (and is as falsy).
report_success(pool, u, response_time) ==
    LET i == ProxyIndex(pool, u)
    IN  IF i = 0 THEN pool
        ELSE [pool EXCEPT
                ![i].success_count = @ + 1,
                ![i].avg_response_time =
                    IF response_time # 0 THEN (@ + response_time) \div 2 ELSE @]

\* Variant of report_failure: a low score is enough to mark the proxy dead,
\* however few failures were counted.
report_failure_hasty(pool, u) ==
    LET i == ProxyIndex(pool, u)
        failed == [pool[i] EXCEPT !.fail_count = @ + 1]
    IN  IF i = 0 THEN pool
        ELSE [pool EXCEPT ![i] =
                IF Less(score(failed), <<3, 10>>)
                THEN [failed EXCEPT !.is_alive = FALSE]
                ELSE failed]

\* report_failure(proxy_url)
report_failure(pool, u) ==
    LET i == ProxyIndex(pool, u)
        failed == [pool[i] EXCEPT !.fail_count = @ + 1]
    IN  IF i = 0 THEN pool
        ELSE [pool EXCEPT ![i] =
                IF failed.fail_count > DEAD_FAILS /\ Less(score(failed), <<3, 10>>)
                THEN [failed EXCEPT !.is_alive = FALSE]
                ELSE failed]

UrlsOf(pool) == {pool[i].url : i \in 1..Len(pool)}

\* _fetch_free_proxies, lines 64-79: lines are the proxies the sources
\* list, in the order read; a url the pool holds already is not added again.
RECURSIVE fetch_free_proxies(_, _)
fetch_free_proxies(pool, lines) ==
    IF lines = << >> THEN pool
    ELSE fetch_free_proxies(
            IF Head(lines) \in UrlsOf(pool) THEN pool
            ELSE Append(pool, Proxy(Head(lines))),
            Tail(lines))

\* _test_proxy(proxy, test_url), lines 93-114.  answer: after how long the
\* probe was answered with status 200, in units of 1/LatScale second; 0 if
\* it was not (another status, a timeout, an exception).
test_proxy(p, answer) ==
    IF answer > 0
    THEN [p EXCEPT !.is_alive = TRUE, !.avg_response_time = answer,
                   !.success_count = @ + 1]
    ELSE [p EXCEPT !.is_alive = FALSE, !.fail_count = @ + 1]

is_alive(p) == p.is_alive

\* The proxies _test_all_proxies probes: self.proxies[:50].
tested(pool) == SubSeq(pool, 1, Min(PROBE_LIMIT, Len(pool)))

\* _test_all_proxies, lines 81-91: answers gives the answer of each url.
test_all_proxies(pool, answers) ==
    LET probed == [ i \in 1..Len(pool) |->
                      IF i <= PROBE_LIMIT
                      THEN test_proxy(pool[i], answers[pool[i].url])
                      ELSE pool[i] ]
    IN  SelectSeq(probed, is_alive)

\* initialize, lines 45-62, as a function of the pool, of _initialized, of
\* what the sources list and of what the probes answer.
initialize(pool, done, lines, answers) ==
    IF done \/ ~USE_PROXY THEN pool
    ELSE LET custom == [ i \in 1..Len(CUSTOM_PROXIES) |->
                          Proxy(CUSTOM_PROXIES[i]) ]
         IN  test_all_proxies(fetch_free_proxies(pool \o custom, lines),
                              answers)

\* get_stats, lines 166-173.
get_stats(pool) ==
    LET alive == Len(SelectSeq(pool, is_alive))
    IN  [ total |-> Len(pool), alive |-> alive, dead |-> Len(pool) - alive ]

\* ---------------------------------------------------------- CookieManager
\* _generate_initial_cookies(count): the number of cookies of a generated
\* pool.
count == 2
\* cookie_manager.py:91  `if cookie.fail_count > 3`
FAIL_LIMIT == 3
\* cookie_manager.py:75  `valid_cookies[:3]`, `len(valid_cookies) >= 3`
TOP_COOKIES == 3

\* The g-th pool _generate_initial_cookies makes, at time t.  The values
\* are random strings of 64 characters and more: the model takes each to
\* be new, and names it by the pool and the position it was generated at.
generate(g, t) ==
    [ i \in 1..count |->
        [ value |-> <<g, i>>, created_at |-> t, last_used |-> 0,
          success_count |-> 0, fail_count |-> 0, is_valid |-> TRUE ] ]

\* The sort key of get_cookie, as a fraction.
ratio(c) == <<c.success_count, Max(1, c.success_count + c.fail_count)>>

RECURSIVE InsertByRatio(_, _)
InsertByRatio(c, sorted) ==
    IF sorted = << >> THEN <<c>>
    ELSE IF Less(ratio(Head(sorted)), ratio(c)) THEN <<c>> \o sorted
    ELSE <<Head(sorted)>> \o InsertByRatio(c, Tail(sorted))

RECURSIVE SortByRatio(_)
SortByRatio(list) ==
    IF list = << >> THEN << >>
    ELSE InsertByRatio(list[Len(list)],
                       SortByRatio(SubSeq(list, 1, Len(list) - 1)))

\* Variant of get_cookie: when no cookie is valid, the pool is kept and
\* every cookie of it is made valid again.
get_cookie_reviving(pool, g, t) ==
    LET IsValid(c) == c.is_valid
        valid   == SelectSeq(pool, IsValid)
        revived == [i \in 1..Len(pool) |-> [pool[i] EXCEPT !.is_valid = TRUE]]
        sorted  == SortByRatio(IF valid = << >> THEN revived ELSE valid)
    IN  [ cookies |-> IF valid = << >> THEN sorted ELSE pool,
          generations |-> g,
          choice |-> IF Len(sorted) >= TOP_COOKIES
                     THEN SubSeq(sorted, 1, TOP_COOKIES) ELSE <<sorted[1]>> ]

\* Variant of get_cookie: when no cookie is valid, the new cookies are
\* added to the pool, which keeps the old ones.
get_cookie_appending(pool, g, t) ==
    LET IsValid(c) == c.is_valid
        valid   == SelectSeq(pool, IsValid)
        sorted  == SortByRatio(IF valid = << >> THEN generate(g + 1, t)
                               ELSE valid)
    IN  [ cookies |-> IF valid = << >> THEN pool \o sorted ELSE pool,
          generations |-> IF valid = << >> THEN g + 1 ELSE g,
          choice |-> IF Len(sorted) >= TOP_COOKIES
                     THEN SubSeq(sorted, 1, TOP_COOKIES) ELSE <<sorted[1]>> ]

\* get_cookie up to the selection, lines 62-75: the pool afterwards (a new
\* one if no cookie was valid, and then valid_cookies is the pool itself
\* and the sort is in place) and the cookies the selection is made from.
get_cookie(pool, g, t) ==
    LET IsValid(c) == c.is_valid
        valid   == SelectSeq(pool, IsValid)
        sorted  == SortByRatio(IF valid = << >> THEN generate(g + 1, t)
                               ELSE valid)
    IN  [ cookies |-> IF valid = << >> THEN sorted ELSE pool,
          generations |-> IF valid = << >> THEN g + 1 ELSE g,
          choice |-> IF Len(sorted) >= TOP_COOKIES
                     THEN SubSeq(sorted, 1, TOP_COOKIES) ELSE <<sorted[1]>> ]

\* The first cookie of the pool whose value is v, 0 if there is none.
CookieIndex(pool, v) ==
    IF \E i \in 1..Len(pool) : pool[i].value = v
    THEN CHOOSE i \in 1..Len(pool) :
            /\ pool[i].value = v
            /\ \A j \in 1..(i - 1) : pool[j].value # v
    ELSE 0

\* Variant of report_success: the body of report_failure in its place.
cookie_report_success_swapped(pool, v) ==
    LET i == CookieIndex(pool, v)
    IN  IF i = 0 THEN pool
        ELSE [pool EXCEPT
                ![i].fail_count = @ + 1,
                ![i].is_valid = IF pool[i].fail_count + 1 > FAIL_LIMIT
                                THEN FALSE ELSE @]

\* CookieManager.report_success(cookie_value)
cookie_report_success(pool, v) ==
    LET i == CookieIndex(pool, v)
    IN  IF i = 0 THEN pool ELSE [pool EXCEPT ![i].success_count = @ + 1]

\* CookieManager.report_failure(cookie_value)
cookie_report_failure(pool, v) ==
    LET i == CookieIndex(pool, v)
    IN  IF i = 0 THEN pool
        ELSE [pool EXCEPT
                ![i].fail_count = @ + 1,
                ![i].is_valid = IF pool[i].fail_count + 1 > FAIL_LIMIT
                                THEN FALSE ELSE @]

\* --------------------------------------------------------- BaseExtractor
\* config.py:162-163.  RETRY_DELAY is in seconds.
MAX_RETRIES == 2
RETRY_DELAY == 2
\* What the network answers to one attempt: status 200 with a JSON body,
\* with another body, or with a body whose reading raises; another 2xx
\* status; 429; another status; asyncio.TimeoutError; another exception.
Responses ==
    { "json", "html", "broken", "no_content", "too_many", "server_error",
      "timeout", "error" }

\* Variant of is_200: every 2xx status counts.
is_2xx(o) == o \in {"json", "html", "broken", "no_content"}

\* `response.status == 200`, line 121.
is_200(o) == o \in {"json", "html", "broken"}

\* The attempt ended in an exception: lines 130-132 raised, or
\* session.request did.
raises(o) == o \in {"broken", "timeout", "error"}

\* Variant of reports_failure: only a status is reported, an exception is
\* not.
reports_failure_status(o) == ~is_200(o) /\ o # "too_many" /\ ~raises(o)

\* Variant of reports_failure: a 429 is reported as well.
reports_failure_429(o) == ~is_200(o) \/ raises(o)

\* Lines 143-155: the branches that call proxy_manager.report_failure.
reports_failure(o) == (~is_200(o) /\ o # "too_many") \/ raises(o)

\* Variant of retries: one retry more.
retries_once_more(o, n) == (~is_200(o) \/ raises(o)) /\ n <= MAX_RETRIES

\* Lines 136 and 157: whether request(retry) goes on to request(retry + 1).
retries(o, n) == (~is_200(o) \/ raises(o)) /\ n < MAX_RETRIES

\* Variant of backoff: the same delay before every retry.
backoff_flat(n) == RETRY_DELAY

\* Lines 137 and 158: RETRY_DELAY * (2 ** retry), seconds.
backoff(n) == RETRY_DELAY * 2 ^ n

\* How long an attempt takes, in ticks, from line 109 to line 119 or to
\* the exception: the model gives every attempt one tick.
Duration(o) == 1

\* Variant of via_proxy: the reports are made whether or not a proxy was
\* returned.
via_proxy_or_not(x) == TRUE

\* `if proxy:` (lines 122, 144, 149, 154): x is the local proxy, "" for None.
via_proxy(x) == x # ""

\* response_time, line 119, in units of 1/LatScale second.
Latency(o) == (Duration(o) * LatScale) \div TicksPerSecond

\* netloc.lower().replace("www.", ""): on labels, every label "www" that a
\* dot follows is dropped.
RECURSIVE StripWww(_)
StripWww(labels) ==
    IF Len(labels) <= 1 THEN labels
    ELSE IF Head(labels) = "www" THEN StripWww(Tail(labels))
    ELSE <<Head(labels)>> \o StripWww(Tail(labels))

EndsWith(labels, d) ==
    /\ Len(d) <= Len(labels)
    /\ SubSeq(labels, Len(labels) - Len(d) + 1, Len(labels)) = d

\* Variant of is_valid_url: every URL that has a netloc is accepted.
is_valid_url_any(url) == Len(url.netloc) > 0

\* BaseExtractor.is_valid_url
is_valid_url(url) ==
    LET domain == StripWww(url.netloc)
    IN  \E d \in TERABOX_DOMAINS : EndsWith(domain, d)

\* ------------------------------------------------------ ExtractorManager
\* The list ExtractorManager.__init__ builds, in construction order, with
\* the name and priority class attributes of each extractor.
ExtractorClasses ==
    << [name |-> "api",              priority |-> 1],
       [name |-> "multi_domain_api", priority |-> 2],
       [name |-> "scraper",          priority |-> 3],
       [name |-> "third_party",      priority |-> 4],
       [name |-> "bypass",           priority |-> 5] >>

\* list.sort(key=...): a stable ascending sort (insertion sort).
RECURSIVE InsertByPriority(_, _)
InsertByPriority(e, sorted) ==
    IF sorted = <<>> THEN <<e>>
    ELSE IF e.priority < Head(sorted).priority THEN <<e>> \o sorted
    ELSE <<Head(sorted)>> \o InsertByPriority(e, Tail(sorted))

\* Variant of the sort: reverse=True.
RECURSIVE InsertByPriorityDesc(_, _)
InsertByPriorityDesc(e, sorted) ==
    IF sorted = <<>> THEN <<e>>
    ELSE IF e.priority > Head(sorted).priority THEN <<e>> \o sorted
    ELSE <<Head(sorted)>> \o InsertByPriorityDesc(e, Tail(sorted))

RECURSIVE SortByPriorityDesc(_)
SortByPriorityDesc(list) ==
    IF list = <<>> THEN <<>>
    ELSE InsertByPriorityDesc(list[Len(list)],
                              SortByPriorityDesc(SubSeq(list, 1, Len(list) - 1)))

RECURSIVE SortByPriority(_)
SortByPriority(list) ==
    IF list = <<>> THEN <<>>
    ELSE InsertByPriority(list[Len(list)],
                          SortByPriority(SubSeq(list, 1, Len(list) - 1)))

\* self.extractors after __init__
extractors == SortByPriority(ExtractorClasses)

\* What one `await extractor.extract(url)` may do: return a success dict,
\* return None, return a dict without success ({"error": ...}), or raise an
\* Exception whose str() is msg.
Outcomes ==
    { [kind |-> "success", msg |-> ""],
      [kind |-> "none",    msg |-> ""],
      [kind |-> "failure", msg |-> ""] }
    \cup { [kind |-> "raise", msg |-> m] : m \in ExcMsgs }

\* Values extract hands to its caller.  kind "dict" is a returned dict;
\* "pending" is a call that has not returned; "raised" is an exception
\* leaving extract.
\* A success dict names the extractor that produced it and the files, which
\* the model identifies with the path of the URL they were extracted from.
Pending ==
    [kind |-> "pending", success |-> FALSE, error |-> "", extractor |-> "", files |-> ""]
Failure(msg) ==
    [kind |-> "dict", success |-> FALSE, error |-> msg, extractor |-> "", files |-> ""]
Success(name, url) ==
    [kind |-> "dict", success |-> TRUE, error |-> "", extractor |-> name, files |-> url.path]
Raised(msg) ==
    [kind |-> "raised", success |-> FALSE, error |-> msg, extractor |-> "", files |-> ""]

INVALID_URL == "Invalid Terabox URL"
RATE_LIMITED == "Rate limit exceeded. Please wait."
EXTRACT_FAILED == "Failed to extract download link"

\* cache_key = f"extract:{url}"
cache_key(url) == <<"extract", url>>

\* The body of the for loop for one extractor, lines 48-60: what the
\* iteration leaves behind.  last_error is <<>> for None, <<s>> for str s.
\*   returned: the iteration returned from extract with ret
\*   store:    the result was written to the cache
\* Variant of the loop body: no `return result` after a success.
try_extractor_no_return(ext, url, outcome, last_error) ==
    CASE outcome.kind = "success" ->
            [ returned |-> FALSE, ret |-> Pending, store |-> TRUE,
              last_error |-> last_error ]
      [] outcome.kind = "raise" ->
            [ returned |-> FALSE, ret |-> Pending, store |-> FALSE,
              last_error |-> <<outcome.msg>> ]
      [] OTHER ->
            [ returned |-> FALSE, ret |-> Pending, store |-> FALSE,
              last_error |-> last_error ]

\* Variant of the loop body: no try/except around the extractor.
try_extractor_propagates(ext, url, outcome, last_error) ==
    CASE outcome.kind = "success" ->
            [ returned |-> TRUE, ret |-> Success(ext.name, url), store |-> TRUE,
              last_error |-> last_error ]
      [] outcome.kind = "raise" ->
            [ returned |-> TRUE, ret |-> Raised(outcome.msg), store |-> FALSE,
              last_error |-> last_error ]
      [] OTHER ->
            [ returned |-> FALSE, ret |-> Pending, store |-> FALSE,
              last_error |-> last_error ]

\* Variant of the loop body: `last_error = last_error or str(e)`.
try_extractor_first_error(ext, url, outcome, last_error) ==
    CASE outcome.kind = "success" ->
            [ returned |-> TRUE, ret |-> Success(ext.name, url), store |-> TRUE,
              last_error |-> last_error ]
      [] outcome.kind = "raise" ->
            [ returned |-> FALSE, ret |-> Pending, store |-> FALSE,
              last_error |-> IF last_error # <<>> /\ last_error[1] # ""
                             THEN last_error ELSE <<outcome.msg>> ]
      [] OTHER ->
            [ returned |-> FALSE, ret |-> Pending, store |-> FALSE,
              last_error |-> last_error ]

\* Variant of the loop body: a dict without success is written to the cache
\* too.
try_extractor_caching_all(ext, url, outcome, last_error) ==
    CASE outcome.kind = "success" ->
            [ returned |-> TRUE, ret |-> Success(ext.name, url), store |-> TRUE,
              last_error |-> last_error ]
      [] outcome.kind = "raise" ->
            [ returned |-> FALSE, ret |-> Pending, store |-> FALSE,
              last_error |-> <<outcome.msg>> ]
      [] outcome.kind = "failure" ->
            [ returned |-> FALSE, ret |-> Failure(outcome.msg), store |-> TRUE,
              last_error |-> last_error ]
      [] OTHER ->
            [ returned |-> FALSE, ret |-> Pending, store |-> FALSE,
              last_error |-> last_error ]

try_extractor(ext, url, outcome, last_error) ==
    CASE outcome.kind = "success" ->
            [ returned |-> TRUE, ret |-> Success(ext.name, url), store |-> TRUE,
              last_error |-> last_error ]
      [] outcome.kind = "raise" ->
            [ returned |-> FALSE, ret |-> Pending, store |-> FALSE,
              last_error |-> <<outcome.msg>> ]
      [] OTHER ->
            [ returned |-> FALSE, ret |-> Pending, store |-> FALSE,
              last_error |-> last_error ]

\* lines 62-65: `last_error or "Failed to extract download link"`
exhausted(last_error) ==
    IF last_error # <<>> /\ last_error[1] # ""
    THEN Failure(last_error[1])
    ELSE Failure(EXTRACT_FAILED)

\* ------------------------------------------------------------------ state
VARIABLES
    now,            \* time.time(), in ticks
    global_bucket,  \* rate_limiter.global_bucket
    user_buckets,   \* rate_limiter.user_buckets
    cache,          \* cache_manager.memory_cache.cache
    stats,          \* cache_manager.memory_cache.stats
    ncalls,         \* extract calls started so far
    pc,             \* per task: the stage of its extract call
    url,            \* per task: extract's argument url
    user_id,        \* per task: extract's argument user_id
    start,          \* per task: wait_and_acquire's local start
    wake,           \* per task: when its asyncio.sleep ends
    idx,            \* per task: position of the for loop in self.extractors
    last_error,     \* per task: extract's local last_error
    ret,            \* per task: what extract returned
    invoked,        \* observer, per task: names of the extractors invoked
    outcome,        \* observer, per task: outcome of the last invocation
    raised,         \* observer, per task: <<str(e)>> of the last exception
    admitted,       \* observer, per task: acquire returned True
    looked,         \* observer, per task: cache_manager.get was called
    stored,         \* observer, per task: cache_manager.set was called
    extracted,      \* observer: the URLs for which an extract call has
                    \* returned a success
    entered         \* observer: per task, the cache as it was when the
                    \* call in progress began

\* State of the calls made to rate_limiter.wait_and_acquire on its own.
VARIABLES
    timeout,        \* per task: wait_and_acquire's argument timeout, seconds
    polls,          \* observer, per task: acquire attempts of its call
    requests        \* observer: task, time and user_id of every call made
                    \* so far

\* State of a MemoryCache used on its own.
VARIABLES
    max_size,       \* MemoryCache.max_size
    op,             \* observer: the last operation on the cache, its
                    \* arguments and what it returned
    used            \* observer: the keys the cache holds, the least recently
                    \* inserted or hit first

\* State of the ProxyManager.
VARIABLES
    proxies,            \* ProxyManager.proxies, a list of Proxy
    domain_cooldowns,   \* ProxyManager.domain_cooldowns: per domain, the
                        \* time each url was last selected for it
    picked,             \* observer: the last call of get_proxy, its domain,
                        \* the url it returned ("" for None), how many
                        \* calls the manager has served, of what kind the
                        \* last one was and whether it ran inside
                        \* `async with self.lock`
    selected_at,        \* observer: per <<domain, url>>, when get_proxy
                        \* last returned the url for the domain
    initialized,        \* ProxyManager._initialized
    unresponsive        \* observer: the urls whose probe by _test_proxy
                        \* failed during initialize

\* State of the CookieManager.
VARIABLES
    cookies,            \* CookieManager.cookies, a list of Cookie
    generations,        \* how many pools _generate_initial_cookies has made
    given,              \* observer: <<value>> if the last call made to the
                        \* manager was get_cookie and returned value, << >>
                        \* otherwise
    condemned           \* observer: the values whose fail_count has
                        \* exceeded the threshold

\* State of one call of BaseExtractor.request.
VARIABLES
    phase,              \* where the call is: "Idle", "Entered" (at line 94
                        \* of request(retry)), "Awaiting" (the response),
                        \* "Sleeping" (before the retry), "Returned"
    retry,              \* the argument retry of the innermost request
    use_proxy,          \* the argument use_proxy
    use_cookie,         \* the argument use_cookie
    host,               \* get_domain_from_url(url)
    header,             \* <<request_headers["Cookie"]>>, << >> if not set
    proxy,              \* the local proxy, "" for None
    result,             \* what the call returned
    sent,               \* observer: how many network attempts were made
    last,               \* observer: the last attempt: its retry, proxy,
                        \* cookie, start time and outcome ("" while awaited)
    seen,               \* observer: the outcomes of the attempts so far
    delays,             \* observer: the seconds slept before each retry
    reports             \* observer: the reports made to the two pools for
                        \* the last attempt

limiter == <<global_bucket, user_buckets>>
caching == <<cache, stats>>
locals == <<url, user_id, start, wake, idx, last_error, ret>>
observers == <<invoked, outcome, raised, admitted, looked, stored>>
history == <<extracted, entered>>
standalone == <<timeout, polls, requests>>
\* What the extract pipeline does not touch.
memory == <<max_size, op, used>>
proxy_pool == <<proxies, domain_cooldowns, picked, selected_at, initialized,
               unresponsive>>
cookie_pool == <<cookies, generations, given, condemned>>
executor == <<phase, retry, use_proxy, use_cookie, host, header, proxy, result,
              sent, last, seen, delays, reports>>
outside == <<standalone, memory, proxy_pool, cookie_pool, executor>>
vars == <<now, limiter, caching, ncalls, pc, locals, observers, history,
          outside>>

NoOutcome == [kind |-> "", msg |-> ""]
AnyUrl == CHOOSE u \in Urls : TRUE
\* n: how many operations were made; t: when the last one was made; found:
\* the cache held its key; value: what get returned, what set was given.
NoOp ==
    [ n |-> 0, kind |-> "", t |-> 0, key |-> cache_key(AnyUrl), found |-> FALSE,
      value |-> << >>, ttl |-> 0 ]

\* The domains get_proxy is called for; "" stands for None.
Domains == {"", "d1", "d2"}
ProxyUrls == {"p1", "p2"}
NoAttempt == [retry |-> 0, proxy |-> "", cookie |-> << >>, t |-> 0, outcome |-> ""]
NoPick ==
    [ n |-> 0, kind |-> "", domain |-> "", url |-> "", t |-> 0,
      locked |-> FALSE ]

\* Every task idle, no operation made on the cache or the pools.
AtRest ==
    /\ now = 0
    /\ ncalls = 0
    /\ pc = [c \in Tasks |-> "Idle"]
    /\ url = [c \in Tasks |-> AnyUrl]
    /\ entered = [c \in Tasks |-> << >>]
    /\ user_id = [c \in Tasks |-> 0]
    /\ start = [c \in Tasks |-> 0]
    /\ wake = [c \in Tasks |-> 0]
    /\ idx = [c \in Tasks |-> 0]
    /\ last_error = [c \in Tasks |-> << >>]
    /\ ret = [c \in Tasks |-> Pending]
    /\ invoked = [c \in Tasks |-> << >>]
    /\ outcome = [c \in Tasks |-> NoOutcome]
    /\ raised = [c \in Tasks |-> << >>]
    /\ admitted = [c \in Tasks |-> FALSE]
    /\ looked = [c \in Tasks |-> FALSE]
    /\ stored = [c \in Tasks |-> FALSE]
    /\ timeout = [c \in Tasks |-> 0]
    /\ polls = [c \in Tasks |-> 0]
    /\ requests = << >>
    /\ op = NoOp
    /\ used = << >>
    /\ domain_cooldowns = [d \in Domains |-> << >>]
    /\ picked = NoPick
    /\ selected_at = << >>
    /\ unresponsive = {}
    /\ cookies = generate(1, 0)
    /\ generations = 1
    /\ given = << >>
    /\ condemned = {}
    /\ phase = "Idle"
    /\ retry = 0
    /\ use_proxy = TRUE
    /\ use_cookie = TRUE
    /\ host = ""
    /\ header = << >>
    /\ proxy = ""
    /\ result = "pending"
    /\ sent = 0
    /\ last = NoAttempt
    /\ seen = {}
    /\ delays = << >>
    /\ reports = << >>

\* The limiter and the cache as their constructors leave them.
Untouched ==
    /\ global_bucket = NewGlobalBucket(0)
    /\ user_buckets = << >>
    /\ cache = << >>
    /\ stats = [hits |-> 0, misses |-> 0]
    /\ extracted = {}

\* The module-level singletons as the imports leave them, but for the size
\* of the cache and the proxies of the pool.
Constructed ==
    /\ AtRest
    /\ Untouched

\* cache_manager.py:102  MemoryCache(max_size=CACHE_MAX_SIZE, ...)
DefaultCache == max_size = CACHE_MAX_SIZE

\* ProxyManager.__init__: no proxy yet, initialize not yet called.
EmptyPool ==
    /\ proxies = << >>
    /\ initialized = FALSE

Init ==
    /\ Constructed
    /\ DefaultCache
    /\ EmptyPool

\* ---------------------------------------------------------------- actions
\* The clock advances.  Between its entry and its first await (the sleep
\* of wait_and_acquire, or the first extractor) extract does not give up
\* the event loop, and a call that has returned is taken by its caller
\* (Return) before the clock moves on: time passes while every task is
\* idle, asleep or inside the strategy loop.
Tick ==
    /\ now < MaxNow
    /\ \A c \in Tasks : \/ pc[c] \in {"Idle", "StrategyLoop"}
                        \/ pc[c] = "RateLimiting" /\ wake[c] > now
    /\ now' = now + TickLen
    /\ UNCHANGED <<limiter, caching, ncalls, pc, locals, observers, history,
                   outside>>

\* A caller (bot.py:145) starts extract(u, uid) as task c.
Call(c, u, uid) ==
    /\ pc[c] = "Idle"
    /\ ncalls < MaxCalls
    /\ now + EXTRACT_TIMEOUT * TicksPerSecond <= MaxNow
    /\ ncalls' = ncalls + 1
    /\ pc' = [pc EXCEPT ![c] = "Validating"]
    /\ url' = [url EXCEPT ![c] = u]
    /\ user_id' = [user_id EXCEPT ![c] = uid]
    /\ entered' = [entered EXCEPT ![c] = cache]
    /\ UNCHANGED <<now, limiter, caching, start, wake, idx, last_error, ret,
                   observers, extracted, outside>>

\* lines 34-35, and the entry of wait_and_acquire (start = time.time()).
Validate(c) ==
    /\ pc[c] = "Validating"
    /\ IF is_valid_url(url[c])
       THEN /\ pc' = [pc EXCEPT ![c] = "RateLimiting"]
            /\ start' = [start EXCEPT ![c] = now]
            /\ wake' = [wake EXCEPT ![c] = now]
            /\ ret' = ret
       ELSE /\ pc' = [pc EXCEPT ![c] = "Done"]
            /\ ret' = [ret EXCEPT ![c] = Failure(INVALID_URL)]
            /\ UNCHANGED <<start, wake>>
    /\ UNCHANGED <<now, limiter, caching, ncalls, url, user_id, idx,
                   last_error, observers, history, outside>>

\* One turn of the loop of wait_and_acquire(user_id, tmo), taken when the
\* task is awake: the timeout test, acquire, and the sleep that follows a
\* refusal; on timeout, the failure its caller makes of it (lines 37-38 of
\* extract).
Acquiring(c, tmo) ==
    /\ pc[c] = "RateLimiting"
    /\ now >= wake[c]
    /\ IF within_timeout(now, start[c], tmo)
       THEN LET a == acquire(global_bucket, user_buckets, user_id[c], now)
            IN  /\ global_bucket' = a.global_bucket
                /\ user_buckets' = a.user_buckets
                /\ admitted' = [admitted EXCEPT ![c] = a.ok]
                /\ IF a.ok
                   THEN /\ pc' = [pc EXCEPT ![c] = "CacheCheck"]
                        /\ wake' = wake
                   ELSE /\ pc' = pc
                        /\ wake' = [wake EXCEPT ![c] = now + SLEEP_TICKS]
                /\ ret' = ret
       ELSE /\ pc' = [pc EXCEPT ![c] = "Done"]
            /\ ret' = [ret EXCEPT ![c] = Failure(RATE_LIMITED)]
            /\ UNCHANGED <<limiter, wake, admitted>>
    /\ UNCHANGED <<now, caching, ncalls, url, user_id, start, idx, last_error,
                   invoked, outcome, raised, looked, stored, history>>

\* line 37: extract waits with timeout=10.
WaitAndAcquire(c) ==
    /\ Acquiring(c, EXTRACT_TIMEOUT)
    /\ UNCHANGED outside

\* lines 40-46: the cache lookup.
CacheCheck(c) ==
    /\ pc[c] = "CacheCheck"
    /\ LET g == cache_get(cache, stats, cache_key(url[c]), now)
       IN  /\ cache' = g.cache
           /\ stats' = g.stats
           /\ looked' = [looked EXCEPT ![c] = TRUE]
           /\ IF g.value # << >>
              THEN /\ pc' = [pc EXCEPT ![c] = "Done"]
                   /\ ret' = [ret EXCEPT ![c] = g.value[1]]
                   /\ UNCHANGED <<idx, last_error>>
              ELSE /\ pc' = [pc EXCEPT ![c] = "StrategyLoop"]
                   /\ idx' = [idx EXCEPT ![c] = 1]
                   /\ last_error' = [last_error EXCEPT ![c] = << >>]
                   /\ ret' = ret
    /\ UNCHANGED <<now, limiter, ncalls, url, user_id, start, wake,
                   invoked, outcome, raised, admitted, stored, history, outside>>

\* lines 47-65: one iteration of the for loop, with outcome o of the
\* extractor; after the last extractor, the return that follows the loop.
TryExtractor(c, o) ==
    /\ pc[c] = "StrategyLoop"
    /\ LET ext == extractors[idx[c]]
           r   == try_extractor(ext, url[c], o, last_error[c])
       IN  /\ invoked' = [invoked EXCEPT ![c] = Append(@, ext.name)]
           /\ outcome' = [outcome EXCEPT ![c] = o]
           /\ raised' = [raised EXCEPT ![c] =
                            IF o.kind = "raise" THEN <<o.msg>> ELSE @]
           /\ last_error' = [last_error EXCEPT ![c] = r.last_error]
           /\ stored' = [stored EXCEPT ![c] = r.store]
           /\ cache' = IF r.store
                       THEN cache_set(cache, cache_key(url[c]), r.ret,
                                      EXTRACT_TTL, now)
                       ELSE cache
           /\ IF r.returned
              THEN /\ pc' = [pc EXCEPT ![c] = "Done"]
                   /\ ret' = [ret EXCEPT ![c] = r.ret]
                   /\ idx' = idx
              ELSE IF idx[c] < Len(extractors)
              THEN /\ pc' = pc
                   /\ ret' = ret
                   /\ idx' = [idx EXCEPT ![c] = @ + 1]
              ELSE /\ pc' = [pc EXCEPT ![c] = "Done"]
                   /\ ret' = [ret EXCEPT ![c] = exhausted(r.last_error)]
                   /\ idx' = idx
    /\ UNCHANGED <<now, limiter, stats, ncalls, url, user_id, start, wake,
                   admitted, looked, history, outside>>

\* The caller takes the result; the task is free for another call.
Return(c) ==
    /\ pc[c] = "Done"
    /\ pc' = [pc EXCEPT ![c] = "Idle"]
    /\ url' = [url EXCEPT ![c] = AnyUrl]
    /\ user_id' = [user_id EXCEPT ![c] = 0]
    /\ start' = [start EXCEPT ![c] = 0]
    /\ wake' = [wake EXCEPT ![c] = 0]
    /\ idx' = [idx EXCEPT ![c] = 0]
    /\ last_error' = [last_error EXCEPT ![c] = << >>]
    /\ ret' = [ret EXCEPT ![c] = Pending]
    /\ invoked' = [invoked EXCEPT ![c] = << >>]
    /\ outcome' = [outcome EXCEPT ![c] = NoOutcome]
    /\ raised' = [raised EXCEPT ![c] = << >>]
    /\ admitted' = [admitted EXCEPT ![c] = FALSE]
    /\ looked' = [looked EXCEPT ![c] = FALSE]
    /\ stored' = [stored EXCEPT ![c] = FALSE]
    /\ extracted' = IF ret[c].success
                    THEN extracted \cup {url[c]}
                    ELSE extracted
    /\ entered' = [entered EXCEPT ![c] = << >>]
    /\ UNCHANGED <<now, limiter, caching, ncalls, outside>>

Step(c) ==
    \/ Validate(c)
    \/ WaitAndAcquire(c)
    \/ CacheCheck(c)
    \/ \E o \in Outcomes : TryExtractor(c, o)

Next ==
    \/ Tick
    \/ \E c \in Runners, u \in Urls, uid \in UserIds : Call(c, u, uid)
    \/ \E c \in Runners : Step(c)
    \/ \E c \in Runners : Return(c)

Spec == Init /\ [][Next]_vars

\* The event loop runs every task that can take a step, and time passes.
FairSpec ==
    /\ Spec
    /\ WF_vars(Tick)
    /\ \A c \in Runners : WF_vars(Step(c))

\* ------------------------------------------- extract, an hour later
\* The URL and the caller of a first call of extract, which the first
\* extractor served.
FirstUrl == CHOOSE u \in Urls : is_valid_url(u)
FirstUser == CHOOSE uid \in UserIds : TRUE

\* When that call was made: time is counted from the moment one clock step
\* before its cache entry expires.
Earlier == TickLen - 1 - EXTRACT_TTL * TicksPerSecond

\* The state that call has left and that no other call has changed since:
\* it took a token of each bucket (line 37), missed the cache (line 41) and
\* wrote its result (line 53).
ExpiryInit ==
    /\ AtRest
    /\ DefaultCache
    /\ EmptyPool
    /\ LET a == acquire(NewGlobalBucket(Earlier), << >>, FirstUser, Earlier)
       IN  /\ global_bucket = a.global_bucket
           /\ user_buckets = a.user_buckets
    /\ cache = cache_set(<< >>, cache_key(FirstUrl), Success("api", FirstUrl),
                         EXTRACT_TTL, Earlier)
    /\ stats = [hits |-> 0, misses |-> 1]
    /\ extracted = {FirstUrl}

\* The same caller goes on calling extract, for any URL.
ExpiryNext ==
    \/ Tick
    \/ \E c \in Runners, u \in Urls : Call(c, u, FirstUser)
    \/ \E c \in Runners : Step(c)
    \/ \E c \in Runners : Return(c)

ExpirySpec == ExpiryInit /\ [][ExpiryNext]_vars

\* ------------------------------------------- wait_and_acquire on its own
\* Calls of rate_limiter.wait_and_acquire(user_id, timeout) made by any
\* number of tasks, without the rest of extract.  A task whose call returned
\* True stands at "CacheCheck", one whose call returned False at "Done".

\* timeout in seconds: one shorter than the clock step, and extract's.
Timeouts == {1, EXTRACT_TIMEOUT}

\* user_id: None (0) or a caller.
AcquireIds == {0} \cup UserIds

\* Task c is between the entry of wait_and_acquire and its first
\* asyncio.sleep or return: it has not given up the event loop, no other
\* task runs meanwhile.
Running(c) == pc[c] = "RateLimiting" /\ wake[c] = start[c]

\* asyncio.sleep(0.5) is over: half a second has passed.
Sleep ==
    /\ now + SLEEP_TICKS <= MaxNow
    /\ \E c \in Tasks : pc[c] = "RateLimiting" /\ wake[c] > now
    /\ \A c \in Tasks : \/ pc[c] = "Idle"
                        \/ pc[c] = "RateLimiting" /\ wake[c] > now
    /\ now' = now + SLEEP_TICKS
    /\ UNCHANGED <<limiter, caching, ncalls, pc, locals, observers, history,
                   outside>>

\* Task c calls wait_and_acquire(uid, tmo): line 83, start = time.time().
Admit(c, uid, tmo) ==
    /\ pc[c] = "Idle"
    /\ \A d \in Tasks : ~Running(d)
    /\ ncalls < MaxCalls
    /\ now + tmo * TicksPerSecond <= MaxNow
    /\ ncalls' = ncalls + 1
    /\ pc' = [pc EXCEPT ![c] = "RateLimiting"]
    /\ user_id' = [user_id EXCEPT ![c] = uid]
    /\ start' = [start EXCEPT ![c] = now]
    /\ wake' = [wake EXCEPT ![c] = now]
    /\ timeout' = [timeout EXCEPT ![c] = tmo]
    /\ polls' = [polls EXCEPT ![c] = 0]
    /\ requests' = Append(requests, [task |-> c, t |-> now, uid |-> uid])
    /\ UNCHANGED <<now, limiter, caching, url, idx, last_error, ret,
                   observers, history, memory, proxy_pool, cookie_pool,
                   executor>>

\* lines 85-90: one turn of the loop, with the call's own timeout.
Poll(c) ==
    /\ \A d \in Tasks \ {c} : ~Running(d)
    /\ Acquiring(c, timeout[c])
    /\ polls' = [polls EXCEPT ![c] =
                    IF within_timeout(now, start[c], timeout[c])
                    THEN @ + 1 ELSE @]
    /\ UNCHANGED <<timeout, requests, memory, proxy_pool, cookie_pool,
                   executor>>

\* The caller of wait_and_acquire takes its result.
Resume(c) ==
    /\ pc[c] \in {"CacheCheck", "Done"}
    /\ pc' = [pc EXCEPT ![c] = "Idle"]
    /\ user_id' = [user_id EXCEPT ![c] = 0]
    /\ start' = [start EXCEPT ![c] = 0]
    /\ wake' = [wake EXCEPT ![c] = 0]
    /\ ret' = [ret EXCEPT ![c] = Pending]
    /\ admitted' = [admitted EXCEPT ![c] = FALSE]
    /\ timeout' = [timeout EXCEPT ![c] = 0]
    /\ polls' = [polls EXCEPT ![c] = 0]
    /\ UNCHANGED <<now, limiter, caching, ncalls, url, idx, last_error,
                   invoked, outcome, raised, looked, stored, history, requests,
                   memory, proxy_pool, cookie_pool, executor>>

LimiterNext ==
    \/ Tick
    \/ Sleep
    \/ \E c \in Tasks, uid \in AcquireIds, tmo \in Timeouts : Admit(c, uid, tmo)
    \/ \E c \in Tasks : Poll(c)
    \/ \E c \in Tasks : Resume(c)

LimiterSpec == Init /\ [][LimiterNext]_vars

\* The event loop runs every task that can take a step, and time passes.
FairLimiterSpec ==
    /\ LimiterSpec
    /\ WF_vars(Tick)
    /\ \A c \in Tasks : WF_vars(Poll(c)) /\ WF_vars(Resume(c))

\* ------------------------------------------- extract in two tasks
\* Task d runs and has not reached an await that suspends it: the lock of
\* the limiter and the lock of the cache are free when it asks for them, so
\* from the entry of extract to the sleep of wait_and_acquire, or to the
\* network request of the first extractor, no other task is scheduled.
Busy(d) == pc[d] \in {"Validating", "CacheCheck"} \/ Running(d)

Others(c) == Tasks \ {c}

\* Number of extract calls started in one behaviour of two tasks.
MaxOverlap == 2

\* What an extractor does in these calls: it returns a success dict, or None.
OverlapOutcomes == { o \in Outcomes : o.kind \in {"success", "none"} }

\* A caller (bot.py:145, one task per message) starts extract for the URL
\* as task c, while no other task is running.
Enter(c) ==
    /\ ncalls < MaxOverlap
    /\ \A d \in Others(c) : ~Busy(d)
    /\ Call(c, FirstUrl, FirstUser)

\* The event loop runs task c up to its next await that suspends.
Move(c) ==
    /\ \A d \in Others(c) : ~Busy(d)
    /\ \/ Validate(c)
       \/ WaitAndAcquire(c)
       \/ CacheCheck(c)
       \/ \E o \in OverlapOutcomes : TryExtractor(c, o)

OverlapNext ==
    \/ Tick
    \/ \E c \in Tasks : Enter(c)
    \/ \E c \in Tasks : Move(c)
    \/ \E c \in Tasks : Return(c)

OverlapSpec == Init /\ [][OverlapNext]_vars

\* ------------------------------------------------ MemoryCache on its own
\* get, set, delete and clear called on a MemoryCache(max_size, CACHE_TTL),
\* while time passes (Tick).

\* Number of operations made on the cache in one behaviour.
MaxOps == 4
\* The largest max_size a cache is built with.
MaxCacheSize == 2

CacheSizes == 1..MaxCacheSize
CacheKeys == { cache_key(u) : u \in Urls }
CacheValues == { Success("api", AnyUrl), Success("bypass", AnyUrl) }
\* ttl in seconds: None (0), and the length of a clock step.
Ttls == {0, TickLen \div TicksPerSecond}

KeysOf(c) == { c[i].key : i \in 1..Len(c) }

\* The recency order after an operation that left the cache as c: key k
\* moves to the end if the operation hit it or inserted it, and the keys
\* that c no longer holds leave.
Touch(order, k, c) ==
    LET IsHeld(x) == x \in KeysOf(c)
        IsOther(x) == x # k
    IN  SelectSeq(SelectSeq(order, IsOther) \o <<k>>, IsHeld)

Forget(order, c) ==
    LET IsHeld(x) == x \in KeysOf(c)
    IN  SelectSeq(order, IsHeld)

CacheInit ==
    /\ Constructed
    /\ max_size \in CacheSizes
    /\ EmptyPool

\* MemoryCache.get(k)
Get(k) ==
    /\ op.n < MaxOps
    /\ LET g == cache_get(cache, stats, k, now)
       IN  /\ cache' = g.cache
           /\ stats' = g.stats
           /\ op' = [ n |-> op.n + 1, kind |-> "get", t |-> now, key |-> k,
                      found |-> k \in KeysOf(cache), value |-> g.value,
                      ttl |-> 0 ]
           /\ used' = IF g.value # << >> THEN Touch(used, k, g.cache)
                      ELSE Forget(used, g.cache)
    /\ UNCHANGED <<now, limiter, ncalls, pc, locals, observers, history,
                   standalone, max_size,
                   proxy_pool, cookie_pool, executor>>

\* MemoryCache.set(k, v, ttl)
Set(k, v, ttl) ==
    /\ op.n < MaxOps
    /\ LET c == memory_set(cache, max_size, CACHE_TTL, k, v, ttl, now)
       IN  /\ cache' = c
           /\ used' = IF k \in KeysOf(cache) THEN Forget(used, c)
                      ELSE Touch(used, k, c)
    /\ op' = [ n |-> op.n + 1, kind |-> "set", t |-> now, key |-> k,
               found |-> k \in KeysOf(cache), value |-> <<v>>, ttl |-> ttl ]
    /\ UNCHANGED <<now, limiter, stats, ncalls, pc, locals, observers, history,
                   standalone, max_size,
                   proxy_pool, cookie_pool, executor>>

\* MemoryCache.delete(k)
Delete(k) ==
    /\ op.n < MaxOps
    /\ cache' = memory_delete(cache, k)
    /\ used' = Forget(used, memory_delete(cache, k))
    /\ op' = [ n |-> op.n + 1, kind |-> "delete", t |-> now, key |-> k,
               found |-> k \in KeysOf(cache), value |-> << >>, ttl |-> 0 ]
    /\ UNCHANGED <<now, limiter, stats, ncalls, pc, locals, observers, history,
                   standalone, max_size,
                   proxy_pool, cookie_pool, executor>>

\* MemoryCache.clear()
Clear ==
    /\ op.n < MaxOps
    /\ cache' = << >>
    /\ used' = << >>
    /\ op' = [ n |-> op.n + 1, kind |-> "clear", t |-> now, key |-> NoOp.key,
               found |-> FALSE, value |-> << >>, ttl |-> 0 ]
    /\ UNCHANGED <<now, limiter, stats, ncalls, pc, locals, observers, history,
                   standalone, max_size,
                   proxy_pool, cookie_pool, executor>>

CacheNext ==
    \/ Tick
    \/ \E k \in CacheKeys : Get(k)
    \/ \E k \in CacheKeys, v \in CacheValues, ttl \in Ttls : Set(k, v, ttl)
    \/ \E k \in CacheKeys : Delete(k)
    \/ Clear

CacheSpec == CacheInit /\ [][CacheNext]_vars

\* ----------------------------------------------- ProxyManager on its own
Seconds(n) == n * LatScale

\* A proxy as the pool can hold it when the calls begin: never used; or
\* probed by _test_proxy, which answered within 2 seconds; or slow (a first
\* answer after 6 seconds) and reported as failed five times since, so that
\* report_failure marks it dead at the next failure.
Probed(u) ==
    [Proxy(u) EXCEPT !.success_count = 1, !.avg_response_time = Seconds(2)]

Slow(u) ==
    [Proxy(u) EXCEPT !.success_count = 1, !.avg_response_time = Seconds(6),
                     !.fail_count = DEAD_FAILS]

Profiles(u) == {Proxy(u), Probed(u), Slow(u)}

Pools == {<< >>} \cup { <<a, b>> : a \in Profiles("p1"), b \in Profiles("p2") }

\* The response_time report_success is given: None, or 20 seconds.
ResponseTimes == {0, Seconds(20)}

ProxyInit ==
    /\ Constructed
    /\ DefaultCache
    /\ proxies \in Pools
    /\ initialized = TRUE

\* await proxy_manager.get_proxy(domain)
\* proxy_manager.get_proxy(domain), lines 116-146, on the manager's state.
Selecting(domain) ==
    /\ UNCHANGED <<initialized, unresponsive>>
    /\ IF ~USE_PROXY \/ proxies = << >>
       THEN /\ picked' = [ n |-> picked.n + 1, kind |-> "get",
                           domain |-> domain, url |-> "", t |-> now,
                           locked |-> FALSE ]
            /\ UNCHANGED <<proxies, domain_cooldowns, selected_at>>
       ELSE LET g == get_proxy(proxies, domain_cooldowns, domain, now)
            IN  \E k \in 1..Len(g.top) :
                  LET selected == g.top[k]
                      i == ProxyIndex(g.proxies, selected.url)
                  IN  /\ proxies' = [g.proxies EXCEPT ![i].last_used = now]
                      /\ domain_cooldowns' =
                            IF domain # ""
                            THEN [domain_cooldowns EXCEPT ![domain] =
                                    (selected.url :> now) @@ @]
                            ELSE domain_cooldowns
                      /\ picked' = [ n |-> picked.n + 1, kind |-> "get",
                                     domain |-> domain, url |-> selected.url,
                                     t |-> now, locked |-> TRUE ]
                      /\ selected_at' =
                            (<<domain, selected.url>> :> now) @@ selected_at

\* proxy_manager.report_success(proxy_url, response_time), lines 148-155:
\* no `async with self.lock`.
Succeeding(u, response_time) ==
    /\ proxies' = report_success(proxies, u, response_time)
    /\ picked' = [picked EXCEPT !.n = @ + 1, !.kind = "success",
                                !.locked = FALSE]
    /\ UNCHANGED <<domain_cooldowns, selected_at, initialized, unresponsive>>

\* proxy_manager.report_failure(proxy_url), lines 157-164: no
\* `async with self.lock`.
Failing(u) ==
    /\ proxies' = report_failure(proxies, u)
    /\ picked' = [picked EXCEPT !.n = @ + 1, !.kind = "failure",
                                !.locked = FALSE]
    /\ UNCHANGED <<domain_cooldowns, selected_at, initialized, unresponsive>>

\* await proxy_manager.get_proxy(domain)
GetProxy(domain) ==
    /\ picked.n < MaxPoolOps
    /\ Selecting(domain)
    /\ UNCHANGED <<now, limiter, caching, ncalls, pc, locals, observers,
                   history, standalone, memory, cookie_pool,
                   executor>>

\* await proxy_manager.report_success(proxy_url, response_time)
ReportSuccess(u, response_time) ==
    /\ picked.n < MaxPoolOps
    /\ u \in UrlsOf(proxies)
    /\ Succeeding(u, response_time)
    /\ UNCHANGED <<now, limiter, caching, ncalls, pc, locals, observers,
                   history, standalone, memory, cookie_pool,
                   executor>>

\* await proxy_manager.report_failure(proxy_url)
ReportFailure(u) ==
    /\ picked.n < MaxPoolOps
    /\ u \in UrlsOf(proxies)
    /\ Failing(u)
    /\ UNCHANGED <<now, limiter, caching, ncalls, pc, locals, observers,
                   history, standalone, memory, cookie_pool,
                   executor>>

\* The clock advances, until every cooldown that began at the start is
\* over.
ProxyTick ==
    /\ now <= COOLDOWN * TicksPerSecond
    /\ Tick

ProxyNext ==
    \/ ProxyTick
    \/ \E d \in Domains : GetProxy(d)
    \/ \E u \in ProxyUrls, rt \in ResponseTimes : ReportSuccess(u, rt)
    \/ \E u \in ProxyUrls : ReportFailure(u)

ProxySpec == ProxyInit /\ [][ProxyNext]_vars

\* ------------------------------------------- get_proxy on a large pool
\* Number of calls of get_proxy in one behaviour.
MaxSelects == 2

Names ==
    << "p1", "p2", "p3", "p4", "p5", "p6", "p7", "p8", "p9", "p10",
       "p11", "p12", "p13", "p14", "p15", "p16", "p17", "p18",
       "p19", "p20", "p21", "p22", "p23", "p24", "p25", "p26",
       "p27", "p28" >>

\* A pool of n proxies in the order they were fetched: every seventh is
\* dead (one success after 8 seconds, six failures); the i-th of the others
\* has i \div 2 successes and 1 failure, so that the score rises along the
\* pool, two by two.
Ranked(n) ==
    [ i \in 1..n |->
        IF i % 7 = 0
        THEN [Proxy(Names[i]) EXCEPT !.success_count = 1,
                                     !.avg_response_time = Seconds(8),
                                     !.fail_count = DEAD_FAILS + 1,
                                     !.is_alive = FALSE]
        ELSE [Proxy(Names[i]) EXCEPT !.success_count = i \div 2,
                                     !.fail_count = 1] ]

\* 6 proxies, all alive; 28 proxies, 24 of them alive.
SelectPools == { Ranked(6), Ranked(Len(Names)) }

SelectInit ==
    /\ Constructed
    /\ DefaultCache
    /\ proxies \in SelectPools
    /\ initialized = TRUE

\* await proxy_manager.get_proxy(domain), as request calls it for the
\* domain of its url.
Select ==
    /\ picked.n < MaxSelects
    /\ GetProxy("d1")

SelectNext ==
    \/ ProxyTick
    \/ Select

SelectSpec == SelectInit /\ [][SelectNext]_vars

\* ------------------------------------------- ProxyManager.initialize
\* What the sources list: nothing, one proxy, or two of which one twice.
Listings == { << >>, <<"p1">>, <<"p1", "p2", "p1">> }

\* What a probe answers: nothing, or status 200 after 2 seconds.
Answers == {0, Seconds(2)}

\* await proxy_manager.initialize() (bot.py:254), lines 45-62.  The probes
\* run together (asyncio.gather); the clock advances by the longest answer.
Initialize ==
    \E lines \in Listings, answers \in [ProxyUrls -> Answers] :
      LET fetched == fetch_free_proxies(proxies, lines)
          probing == ~initialized /\ USE_PROXY
          longest == IF \E u \in UrlsOf(tested(fetched)) : answers[u] > 0
                     THEN Seconds(2) ELSE 0
      IN  /\ proxies' = initialize(proxies, initialized, lines, answers)
          /\ initialized' = TRUE
          /\ unresponsive' =
                IF probing
                THEN {u \in UrlsOf(tested(fetched)) : answers[u] = 0}
                ELSE unresponsive
          /\ now' = IF probing
                    THEN now + (longest * TicksPerSecond) \div LatScale
                    ELSE now
          /\ UNCHANGED <<domain_cooldowns, picked, selected_at>>
          /\ UNCHANGED <<limiter, caching, ncalls, pc, locals, observers,
                         history, standalone, memory, cookie_pool, executor>>

InitializeNext ==
    \/ Initialize
    \/ ProxyNext

\* The manager from its construction on.
InitializeSpec == Init /\ [][InitializeNext]_vars

\* ---------------------------------------------- CookieManager on its own
\* How many pools are generated, and how many successes and failures are
\* reported for one cookie, in one behaviour.
MaxGenerations == 2
MaxSuccess == 1
MaxFails == FAIL_LIMIT + 2

\* The values the manager has generated so far.
Generated == {<<g, i>> : g \in 1..generations, i \in 1..count}

\* cookie_manager.get_cookie()
\* cookie_manager.get_cookie(), lines 60-77, on the manager's state.
Choosing ==
    /\ LET g == get_cookie(cookies, generations, now)
       IN  \E k \in 1..Len(g.choice) :
             LET selected == g.choice[k]
                 i == CookieIndex(g.cookies, selected.value)
             IN  /\ cookies' = [g.cookies EXCEPT ![i].last_used = now]
                 /\ generations' = g.generations
                 /\ given' = <<selected.value>>
    /\ UNCHANGED condemned

\* cookie_manager.report_success(cookie_value), lines 79-84, on the
\* manager's state.
Crediting(v) ==
    /\ cookies' = cookie_report_success(cookies, v)
    /\ given' = << >>
    /\ UNCHANGED <<generations, condemned>>

\* cookie_manager.get_cookie()
GetCookie ==
    /\ (\A i \in 1..Len(cookies) : ~cookies[i].is_valid)
          => generations < MaxGenerations
    /\ Choosing
    /\ UNCHANGED <<now, limiter, caching, ncalls, pc, locals, observers,
                   history, standalone, memory, proxy_pool,
                   executor>>

\* cookie_manager.report_success(cookie_value)
CookieSuccess(v) ==
    /\ v \in Generated
    /\ \A i \in 1..Len(cookies) :
          cookies[i].value = v => cookies[i].success_count < MaxSuccess
    /\ Crediting(v)
    /\ UNCHANGED <<now, limiter, caching, ncalls, pc, locals, observers,
                   history, standalone, memory, proxy_pool,
                   executor>>

\* cookie_manager.report_failure(cookie_value)
CookieFailure(v) ==
    /\ v \in Generated
    /\ \A i \in 1..Len(cookies) :
          cookies[i].value = v => cookies[i].fail_count < MaxFails
    /\ cookies' = cookie_report_failure(cookies, v)
    /\ condemned' =
          condemned \cup { cookies'[i].value : i \in
                             {j \in 1..Len(cookies') :
                                 cookies'[j].fail_count > FAIL_LIMIT} }
    /\ given' = << >>
    /\ UNCHANGED generations
    /\ UNCHANGED <<now, limiter, caching, ncalls, pc, locals, observers,
                   history, standalone, memory, proxy_pool,
                   executor>>

CookieValues == {<<g, i>> : g \in 1..MaxGenerations, i \in 1..count}

CookieNext ==
    \/ GetCookie
    \/ \E v \in CookieValues : CookieSuccess(v)
    \/ \E v \in CookieValues : CookieFailure(v)

CookieSpec == Init /\ [][CookieNext]_vars

\* ------------------------------------------- BaseExtractor.request on its own
Payload(o) == IF o = "json" THEN "json" ELSE "html"

\* The pool when the call begins: empty; two proxies never used; or a
\* probed one and a slow one.
RequestPools ==
    { << >>, <<Proxy("p1"), Proxy("p2")>>, <<Probed("p1"), Slow("p2")>> }

RequestInit ==
    /\ Constructed
    /\ DefaultCache
    /\ proxies \in RequestPools
    /\ initialized = TRUE

\* A strategy calls self.request(url, ..., use_proxy, use_cookie): retry = 0.
Execute(d, up, uc) ==
    /\ phase = "Idle"
    /\ phase' = "Entered"
    /\ retry' = 0
    /\ host' = d
    /\ use_proxy' = up
    /\ use_cookie' = uc
    /\ UNCHANGED <<header, proxy, result, sent, last, seen, delays, reports>>
    /\ UNCHANGED <<now, limiter, caching, ncalls, pc, locals, observers,
                   history, standalone, memory, proxy_pool, cookie_pool>>

\* Lines 94-118: the cookie and the proxy are taken from their pools and
\* the request is sent.
Send ==
    /\ phase = "Entered"
    /\ IF use_cookie
       THEN Choosing /\ header' = given'
       ELSE UNCHANGED <<cookie_pool, header>>
    /\ IF use_proxy
       THEN Selecting(host) /\ proxy' = picked'.url
       ELSE UNCHANGED proxy_pool /\ proxy' = ""
    /\ sent' = sent + 1
    /\ last' = [ retry |-> retry, proxy |-> proxy', cookie |-> header',
                 t |-> now, outcome |-> "" ]
    /\ reports' = << >>
    /\ phase' = "Awaiting"
    /\ UNCHANGED <<retry, use_proxy, use_cookie, host, result, seen, delays>>
    /\ UNCHANGED <<now, limiter, caching, ncalls, pc, locals, observers,
                   history, standalone, memory>>

\* Lines 118-164: the attempt ends with outcome o; the reports are made;
\* the call returns, or goes to sleep before request(retry + 1).
Respond(o) ==
    /\ phase = "Awaiting"
    /\ now' = now + Duration(o)
    /\ LET credited == is_200(o)
           blamed   == reports_failure(o)
           after_success ==
               IF credited /\ via_proxy(proxy)
               THEN report_success(proxies, proxy, Latency(o)) ELSE proxies
           said ==
               (IF credited /\ via_proxy(proxy)
                THEN << [ retry |-> retry, pool |-> "proxy", kind |-> "success",
                          who |-> <<proxy>>, latency |-> Latency(o) ] >>
                ELSE << >>)
               \o (IF credited /\ use_cookie
                   THEN << [ retry |-> retry, pool |-> "cookie",
                             kind |-> "success", who |-> header,
                             latency |-> 0 ] >>
                   ELSE << >>)
               \o (IF blamed /\ via_proxy(proxy)
                   THEN << [ retry |-> retry, pool |-> "proxy", kind |-> "failure",
                             who |-> <<proxy>>, latency |-> 0 ] >>
                   ELSE << >>)
           told == Len(SelectSeq(said, LAMBDA r : r.pool = "proxy"))
       IN  /\ proxies' = IF blamed /\ via_proxy(proxy)
                         THEN report_failure(after_success, proxy)
                         ELSE after_success
           /\ picked' = IF told = 0 THEN picked
                        ELSE [picked EXCEPT !.n = @ + told,
                                            !.kind = said[Len(said)].kind,
                                            !.locked = FALSE]
           /\ cookies' = IF credited /\ use_cookie
                         THEN cookie_report_success(cookies, header[1])
                         ELSE cookies
           /\ given' = IF credited /\ use_cookie THEN << >> ELSE given
           /\ reports' = said
    /\ last' = [last EXCEPT !.outcome = o]
    /\ seen' = seen \cup {o}
    /\ UNCHANGED sent
    /\ IF is_200(o) /\ ~raises(o)
       THEN /\ phase' = "Returned"
            /\ result' = Payload(o)
            /\ UNCHANGED delays
       ELSE IF retries(o, retry)
       THEN /\ phase' = "Sleeping"
            /\ delays' = Append(delays, backoff(retry))
            /\ UNCHANGED result
       ELSE /\ phase' = "Returned"
            /\ result' = "None"
            /\ UNCHANGED delays
    /\ UNCHANGED <<domain_cooldowns, selected_at, initialized, unresponsive,
                   generations, condemned>>
    /\ UNCHANGED <<retry, use_proxy, use_cookie, host, header, proxy>>
    /\ UNCHANGED <<limiter, caching, ncalls, pc, locals, observers,
                   history, standalone, memory>>

\* Lines 137-141 and 158-162: the sleep is over and request is called
\* again, with retry + 1.
Retry ==
    /\ phase = "Sleeping"
    /\ now' = now + delays[Len(delays)] * TicksPerSecond
    /\ retry' = retry + 1
    /\ phase' = "Entered"
    /\ UNCHANGED <<use_proxy, use_cookie, host, header, proxy, result,
                   sent, last, seen, delays, reports>>
    /\ UNCHANGED <<limiter, caching, ncalls, pc, locals, observers,
                   history, standalone, memory, proxy_pool, cookie_pool>>

RequestNext ==
    \/ \E up, uc \in BOOLEAN : Execute("d1", up, uc)
    \/ Send
    \/ \E o \in Responses : Respond(o)
    \/ Retry

RequestSpec == RequestInit /\ [][RequestNext]_vars

\* ================================================================ claims
\* Vocabulary of the claims, stated without the operators of the model.

\* The token count a bucket holds at time t once its lazy refill is applied.
Refilled(bucket, t) ==
    LET n == bucket.tokens + (t - bucket.last_update) * bucket.refill_rate
    IN  IF n > bucket.max_tokens THEN bucket.max_tokens ELSE n

\* The token count of caller uid's bucket at time t; a caller who has no
\* bucket yet gets a full one on first use.
CallerTokens(buckets, uid, t) ==
    IF uid \in DOMAIN buckets
    THEN Refilled(buckets[uid], t)
    ELSE USER_RATE_LIMIT * Scale

OneToken == Scale

\* The input is no recognized target: no listed domain ends its netloc.
Unrecognized(u) ==
    \A d \in TERABOX_DOMAINS :
        \/ Len(d) > Len(u.netloc)
        \/ \E i \in 1..Len(d) : d[i] # u.netloc[Len(u.netloc) - Len(d) + i]

PriorityOf(name) ==
    (CHOOSE e \in {ExtractorClasses[i] : i \in 1..Len(ExtractorClasses)} :
        e.name = name).priority

\* The name of the strategy that is n-th in ascending priority order.
NthStrategy(n) ==
    (CHOOSE e \in {ExtractorClasses[i] : i \in 1..Len(ExtractorClasses)} :
        Cardinality({ j \in 1..Len(ExtractorClasses) :
                        ExtractorClasses[j].priority < e.priority }) = n - 1).name

NumStrategies == Len(ExtractorClasses)

\* The position of key's entry in the cache, 0 if there is none.
EntryOf(key) ==
    IF \E i \in 1..Len(cache) : cache[i].key = key
    THEN CHOOSE i \in 1..Len(cache) : cache[i].key = key
    ELSE 0

\* Every strategy was tried in the call of task c and none succeeded.
Exhausted(c) ==
    /\ pc[c] = "Done"
    /\ Len(invoked[c]) = NumStrategies
    /\ outcome[c].kind # "success"

\* C1: when strategies 1..N-1 in priority order report no result and strategy
\* N succeeds, extract returns strategy N's result, and no strategy ordered
\* after the first succeeding one is invoked: the call is over.
C1_Fallback ==
    \A c \in Tasks :
        outcome[c].kind = "success" =>
            /\ pc[c] = "Done"
            /\ ret[c].kind = "dict" /\ ret[c].success
            /\ ret[c].extractor = NthStrategy(Len(invoked[c]))
            /\ ret[c].extractor = invoked[c][Len(invoked[c])]
            /\ ret[c].files = url[c].path

\* C1 witness: the first four strategies returned no result (none raised)
\* and the fifth succeeded.
C1_Witness ==
    \E c \in Tasks :
        /\ outcome[c].kind = "success"
        /\ Len(invoked[c]) = NumStrategies
        /\ raised[c] = << >>
        /\ ret[c].extractor = "bypass"

\* C2 as stated: once an extract call for u has returned a success, every
\* later admitted call for u (the TTL cannot elapse within MaxNow) returns a
\* success without invoking a strategy.
C2_Original ==
    \A c \in Tasks :
        (pc[c] = "Done" /\ admitted[c] /\ url[c] \in extracted) =>
            /\ invoked[c] = << >>
            /\ ret[c].success

\* C2 amended: once an extract call for u has returned a success, an admitted
\* call for u whose lookup finds u's entry still in the cache, within its
\* TTL, returns the cached result and invokes no strategy.
C2_ShortCircuit ==
    [][ \A c \in Tasks :
          LET i == EntryOf(<<"extract", url[c]>>)
          IN  ( /\ pc[c] = "CacheCheck"
                /\ pc'[c] # "CacheCheck"
                /\ url[c] \in extracted
                /\ i # 0
                /\ now - cache[i].created_at <= cache[i].ttl * TicksPerSecond )
              => /\ pc'[c] = "Done"
                 /\ ret'[c] = cache[i].value
                 /\ ret'[c].success
                 /\ invoked'[c] = << >>
      ]_vars

\* C2 witness: a later call for an extracted URL ended on a cache hit.
C2_Witness ==
    \E c \in Tasks :
        /\ pc[c] = "Done"
        /\ url[c] \in extracted
        /\ looked[c]
        /\ invoked[c] = << >>
        /\ ret[c].success

\* C3: a strategy that raises, or returns a failure or no result, does not
\* end the loop: unless it was the last one, the call is still in the loop
\* and about to invoke the next strategy in order; and extract never lets a
\* strategy's exception out: what it returns is a result value.
C3_NeverFatal ==
    \A c \in Tasks :
        /\ ret[c].kind \in {"pending", "dict"}
        /\ (pc[c] = "Done") <=> (ret[c].kind = "dict")
        /\ ( /\ outcome[c].kind \in {"none", "failure", "raise"}
             /\ Len(invoked[c]) < NumStrategies )
           => /\ pc[c] = "StrategyLoop"
              /\ extractors[idx[c]].name = NthStrategy(Len(invoked[c]) + 1)

\* C3 witness: a strategy raised and the call is still in the loop.
C3_Witness ==
    \E c \in Tasks :
        /\ outcome[c].kind = "raise"
        /\ pc[c] = "StrategyLoop"
        /\ Len(invoked[c]) >= 2

\* C4: within one call the strategies are invoked in ascending priority
\* order, each at most once, and a strategy is invoked only after every
\* strategy of smaller priority was invoked without success.
C4_PriorityOrder ==
    \A c \in Tasks :
        /\ \A i, j \in 1..Len(invoked[c]) :
              i < j => PriorityOf(invoked[c][i]) < PriorityOf(invoked[c][j])
        /\ \A j \in 1..Len(invoked[c]) :
              \A k \in 1..Len(ExtractorClasses) :
                 ExtractorClasses[k].priority < PriorityOf(invoked[c][j])
                 => \E i \in 1..(j - 1) : invoked[c][i] = ExtractorClasses[k].name
        /\ (pc[c] = "StrategyLoop") => outcome[c].kind # "success"

\* C4 witness: all five strategies were invoked in one call.
C4_Witness ==
    \E c \in Tasks : Len(invoked[c]) = NumStrategies

\* C5: a call whose input is no recognized target ends, straight from
\* validation, in the InvalidInput failure: no token was acquired, the cache
\* was neither read nor written and no strategy was invoked.
C5_InvalidInput ==
    \A c \in Tasks :
        (pc[c] # "Idle" /\ Unrecognized(url[c])) =>
            /\ pc[c] \in {"Validating", "Done"}
            /\ pc[c] = "Done" => ret[c] = Failure(INVALID_URL)
            /\ ~admitted[c] /\ ~looked[c] /\ ~stored[c]
            /\ invoked[c] = << >>

\* C5 witness: a call with an unrecognized input has returned.
C5_Witness ==
    \E c \in Tasks : pc[c] = "Done" /\ Unrecognized(url[c])

\* C6: a call that was not admitted within the bounded wait ends in the
\* RateLimited failure, and only once the wait is over: the cache was neither
\* read nor written and no strategy was invoked; and no step of a call that
\* is waiting for admission leaves the global bucket or any caller's bucket
\* with fewer tokens than it would hold without that step.
C6_RateLimited ==
    /\ [] ( \A c \in Tasks :
              /\ (pc[c] = "Done" /\ ~Unrecognized(url[c]) /\ ~admitted[c]) =>
                    /\ ret[c] = Failure(RATE_LIMITED)
                    /\ now - start[c] >= EXTRACT_TIMEOUT * TicksPerSecond
                    /\ ~looked[c] /\ ~stored[c]
                    /\ invoked[c] = << >>
              /\ (pc[c] = "Done" /\ ret[c] = Failure(RATE_LIMITED)) => ~admitted[c] )
    /\ [][ \A c \in Tasks :
             (pc[c] = "RateLimiting" /\ pc'[c] # "CacheCheck") =>
                /\ Refilled(global_bucket', now') >= Refilled(global_bucket, now')
                /\ \A uid \in UserIds :
                      CallerTokens(user_buckets', uid, now')
                         >= CallerTokens(user_buckets, uid, now')
                /\ cache' = cache
         ]_vars

\* C6 witness: a call has ended in the RateLimited failure.
C6_Witness ==
    \E c \in Tasks :
        /\ pc[c] = "Done"
        /\ ret[c] = Failure(RATE_LIMITED)
        /\ ~admitted[c]

\* C7 as stated: when every strategy was tried without success, the error
\* returned is the message of the last strategy that raised, and the fixed
\* default message if none raised.
C7_Original ==
    \A c \in Tasks :
        Exhausted(c) =>
            ret[c] = Failure(IF raised[c] # << >> THEN raised[c][1]
                                                  ELSE EXTRACT_FAILED)

\* C7 amended: when every strategy was tried without success, the error
\* returned is the message of the last strategy that raised if that message
\* is not empty; it is the fixed default message if no strategy raised or if
\* the last message raised is the empty string.
C7_LastError ==
    \A c \in Tasks :
        Exhausted(c) =>
            ret[c] = Failure(IF raised[c] # << >> /\ raised[c][1] # ""
                             THEN raised[c][1]
                             ELSE EXTRACT_FAILED)

\* C7 witness: every strategy failed, the last one without raising, and the
\* error returned is the message an earlier one raised.
C7_Witness ==
    \E c \in Tasks :
        /\ Exhausted(c)
        /\ outcome[c].kind # "raise"
        /\ ret[c].error = "e1"

Rank(stage) ==
    CASE stage = "Idle"         -> 0
      [] stage = "Validating"   -> 1
      [] stage = "RateLimiting" -> 2
      [] stage = "CacheCheck"   -> 3
      [] stage = "StrategyLoop" -> 4
      [] stage = "Done"         -> 5

\* C8: a call moves through Validating, RateLimiting, CacheCheck,
\* StrategyLoop, Done in that order only, never back to an earlier stage, and
\* always reaches Done; the cache is looked up, and a strategy invoked, only
\* after the admission that took one token from the global bucket and one
\* from the caller's bucket.
C8_Stages ==
    /\ [][ \A c \in Tasks :
             /\ pc'[c] # pc[c] =>
                   \/ Rank(pc[c]) < Rank(pc'[c])
                   \/ pc[c] = "Done" /\ pc'[c] = "Idle"
             /\ (pc[c] = "RateLimiting" /\ pc'[c] = "CacheCheck") =>
                   /\ global_bucket'.tokens
                        = Refilled(global_bucket, now) - OneToken
                   /\ user_buckets'[user_id[c]].tokens
                        = CallerTokens(user_buckets, user_id[c], now) - OneToken
         ]_vars
    /\ [] ( \A c \in Tasks :
              /\ pc[c] \in {"CacheCheck", "StrategyLoop"} => admitted[c]
              /\ looked[c] => admitted[c]
              /\ invoked[c] # << >> => looked[c] )
    /\ \A c \in Tasks : (pc[c] = "Validating") ~> (pc[c] = "Done")

\* C8 witness: a call went through every stage: it was admitted, missed the
\* cache, tried every strategy and returned.
C8_Witness ==
    \E c \in Tasks :
        /\ pc[c] = "Done"
        /\ admitted[c] /\ looked[c]
        /\ Len(invoked[c]) = NumStrategies

\* C9: when a strategy has succeeded and extract has returned, the cache
\* holds, under the key of the input, exactly the result returned, stored at
\* that moment with the fixed TTL.
C9_CacheWrite ==
    \A c \in Tasks :
        (pc[c] = "Done" /\ outcome[c].kind = "success") =>
            LET i == EntryOf(<<"extract", url[c]>>)
            IN  /\ stored[c]
                /\ i # 0
                /\ cache[i].value = ret[c]
                /\ cache[i].ttl = EXTRACT_TTL
                /\ cache[i].created_at = now
                /\ Cardinality({ j \in 1..Len(cache) :
                                   cache[j].key = cache[i].key }) = 1

\* C9 witness: a strategy succeeded for a URL while the cache was full of
\* another URL's entry.
C9_Witness ==
    \E c \in Tasks :
        /\ pc[c] = "Done"
        /\ outcome[c].kind = "success"
        /\ extracted # {}
        /\ url[c] \notin extracted

\* C10: an acquisition succeeds exactly when the global bucket and the
\* caller's bucket both hold at least one token once refilled, and then takes
\* exactly one token from each; when the global bucket holds a token and the
\* caller's bucket does not, it fails and the global bucket keeps its
\* refilled count; when the global bucket holds none, it fails and the
\* caller's bucket is not touched.
C10_Acquire ==
    [][ \A c \in Tasks :
          LET uid == user_id[c]
              G   == Refilled(global_bucket, now)
              U   == CallerTokens(user_buckets, uid, now)
              ok  == pc'[c] = "CacheCheck"
          IN  ( /\ pc[c] = "RateLimiting"
                /\ ok \/ wake'[c] # wake[c] )
              => /\ ok <=> (G >= OneToken /\ U >= OneToken)
                 /\ admitted'[c] <=> ok
                 /\ ok => /\ global_bucket'.tokens = G - OneToken
                          /\ user_buckets'[uid].tokens = U - OneToken
                 /\ (G >= OneToken /\ U < OneToken) =>
                          /\ global_bucket'.tokens = G
                          /\ user_buckets'[uid].tokens = U
                 /\ G < OneToken =>
                          /\ global_bucket'.tokens = G
                          /\ user_buckets' = user_buckets
      ]_vars

\* C10 witness: the last acquisition of a waiting call found a token in the
\* global bucket and none in the caller's bucket, and the global bucket
\* still holds its token.
C10_Witness ==
    \E c \in Tasks :
        /\ pc[c] = "RateLimiting"
        /\ wake[c] > now
        /\ ~admitted[c]
        /\ user_id[c] \in DOMAIN user_buckets
        /\ user_buckets[user_id[c]].last_update = now
        /\ user_buckets[user_id[c]].tokens < OneToken
        /\ global_bucket.last_update = now
        /\ global_bucket.tokens >= OneToken

\* The buckets of the limiter: the global one and every caller's.
AllBuckets == {global_bucket} \cup {user_buckets[uid] : uid \in DOMAIN user_buckets}

\* C11: in every reachable state the stored token count of the global bucket
\* and of every caller's bucket lies between 0 and the bucket's capacity, and
\* so does the count the next access will compute from it by lazy refill;
\* the capacities are the configured ones.
C11_TokensInRange ==
    /\ global_bucket.max_tokens = RATE_LIMIT_REQUESTS * OneToken
    /\ \A uid \in DOMAIN user_buckets :
          user_buckets[uid].max_tokens = USER_RATE_LIMIT * OneToken
    /\ \A b \in AllBuckets :
          /\ 0 <= b.tokens /\ b.tokens <= b.max_tokens
          /\ b.last_update <= now
          /\ 0 <= Refilled(b, now) /\ Refilled(b, now) <= b.max_tokens

\* C11 witness: time has passed, an acquisition has just taken the token of
\* a full global bucket and given it back because the caller's bucket, which
\* has refilled a part of a token, refused: the global bucket is at capacity
\* again.
C11_Witness ==
    /\ now > 0
    /\ global_bucket.last_update = now
    /\ global_bucket.tokens = global_bucket.max_tokens
    /\ \E uid \in DOMAIN user_buckets :
          /\ user_buckets[uid].last_update = now
          /\ 0 < user_buckets[uid].tokens
          /\ user_buckets[uid].tokens < OneToken

\* The token bucket budget.  A bucket of the given capacity (tokens) and
\* period (seconds in which it refills capacity tokens) covers the calls reqs
\* if in every interval that begins and ends with a call, the calls made
\* ask for no more tokens than the capacity plus what refills meanwhile.
Covers(capacity, period, reqs) ==
    \A i, j \in 1..Len(reqs) :
        reqs[i].t <= reqs[j].t =>
            Cardinality({ k \in 1..Len(reqs) :
                            reqs[i].t <= reqs[k].t /\ reqs[k].t <= reqs[j].t })
                * period * TicksPerSecond
              <= capacity * period * TicksPerSecond
                   + capacity * (reqs[j].t - reqs[i].t)

RECURSIVE CallsOf(_, _)
CallsOf(uid, reqs) ==
    IF reqs = << >> THEN << >>
    ELSE IF Head(reqs).uid = uid THEN <<Head(reqs)>> \o CallsOf(uid, Tail(reqs))
    ELSE CallsOf(uid, Tail(reqs))

\* The calls reqs stay within the budget of the global bucket and each
\* caller's calls within the budget of that caller's bucket.
WithinBudget(reqs) ==
    /\ Covers(RATE_LIMIT_REQUESTS, RATE_LIMIT_PERIOD, reqs)
    /\ \A uid \in UserIds : Covers(USER_RATE_LIMIT, USER_PERIOD, CallsOf(uid, reqs))

\* The calls made up to and including the one task c is in.
UpTo(c) ==
    LET own == CHOOSE i \in 1..Len(requests) :
                  /\ requests[i].task = c
                  /\ \A j \in (i + 1)..Len(requests) : requests[j].task # c
    IN  SubSeq(requests, 1, own)

\* C12 as stated: the calls made within the budget succeed and those made
\* beyond it time out: a call that has returned was admitted exactly if the
\* calls made up to its own were within the budget.
C12_Original ==
    \A c \in Tasks :
        pc[c] \in {"CacheCheck", "Done"} =>
            (admitted[c] <=> WithinBudget(UpTo(c)))

\* C12 amended: as long as the calls made stay within the budget, a call
\* is admitted by its first acquisition attempt,
\* without waiting, so only a call made beyond the budget can time out; such
\* a call need not time out: it waits and is admitted by a later attempt
\* that finds both buckets refilled.
C12_Budget ==
    /\ [][ \A c \in Tasks :
             ( /\ pc[c] = "RateLimiting"
               /\ polls'[c] = 1
               /\ polls[c] = 0
               /\ WithinBudget(requests) )
             => /\ pc'[c] = "CacheCheck"
                /\ admitted'[c]
                /\ now = start[c]
         ]_vars
    /\ [] ( \A c \in Tasks :
              pc[c] = "Done" =>
                 ~WithinBudget(UpTo(c)) )
    /\ [] ( \A c \in Tasks :
              (pc[c] = "RateLimiting" /\ polls[c] > 0) =>
                 ~WithinBudget(UpTo(c)) )

\* C12 witness: three calls were made within the budget, the last one after
\* the first two had emptied the global bucket and a token had refilled,
\* and it has been admitted.
C12_Witness ==
    \E c \in Tasks :
        /\ pc[c] = "CacheCheck"
        /\ admitted[c]
        /\ Len(requests) = 3
        /\ WithinBudget(requests)
        /\ requests[1].t = requests[2].t
        /\ start[c] > requests[1].t
        /\ global_bucket.tokens < OneToken

\* C13: wait_and_acquire always terminates.  A turn of its loop makes an
\* acquisition attempt exactly if the timeout has not elapsed since the call
\* began; a successful attempt returns success at once; a failed one is
\* followed by a pause of the fixed interval before the next turn; the turn
\* that finds the timeout elapsed returns failure without an attempt.  So
\* failure is returned only once the timeout has elapsed and after at least
\* one attempt, none of which succeeded, and every call returns.
C13_Terminates ==
    /\ [][ \A c \in Tasks :
             (pc[c] = "RateLimiting" /\ <<pc[c], polls[c]>>' # <<pc[c], polls[c]>>) =>
                LET tried == polls'[c] = polls[c] + 1
                IN  /\ now >= wake[c]
                    /\ tried \/ polls'[c] = polls[c]
                    /\ tried <=> (now - start[c] < timeout[c] * TicksPerSecond)
                    /\ (tried /\ admitted'[c]) => pc'[c] = "CacheCheck"
                    /\ (tried /\ ~admitted'[c]) =>
                          /\ pc'[c] = "RateLimiting"
                          /\ wake'[c] = now + SLEEP_TICKS
                    /\ ~tried => /\ pc'[c] = "Done"
                                 /\ ret'[c] = Failure(RATE_LIMITED)
                                 /\ limiter' = limiter
         ]_vars
    /\ [] ( \A c \in Tasks :
              /\ pc[c] = "Done" =>
                    /\ ~admitted[c]
                    /\ now - start[c] >= timeout[c] * TicksPerSecond
                    /\ timeout[c] > 0 => polls[c] >= 1
              /\ pc[c] = "CacheCheck" => admitted[c] /\ polls[c] >= 1
              /\ (pc[c] = "RateLimiting" /\ polls[c] > 0) => ~admitted[c] )
    /\ \A c \in Tasks :
          (pc[c] = "RateLimiting") ~> (pc[c] \in {"CacheCheck", "Done"})

\* C13 witness: a call with a timeout of 10 s has returned failure after 20
\* attempts, half a second apart.
C13_Witness ==
    \E c \in Tasks :
        /\ pc[c] = "Done"
        /\ ~admitted[c]
        /\ timeout[c] = EXTRACT_TIMEOUT
        /\ polls[c] = timeout[c] * TicksPerSecond
        /\ now - start[c] = timeout[c] * TicksPerSecond

\* The seconds of a duration given in clock units are compared exactly.
Age(entry) == now - entry.created_at

\* C14: a get(k) that follows set(k, v, ttl) with no time elapsed and no
\* operation in between returns v, whatever k, v and ttl, whatever the cache
\* held before and however full it was.
C14_RoundTrip ==
    [][ ( /\ op.kind = "set"
          /\ op'.kind = "get"
          /\ op'.n = op.n + 1
          /\ op'.key = op.key
          /\ op.t = now )
        => /\ op'.value = op.value
           /\ op'.found
      ]_vars

\* C14 witness: a cache of two entries was full, a key it held was set
\* again with another value after some time, and the get that followed at
\* once returned a value.
C14_Witness ==
    /\ op.kind = "get" /\ op.value # << >> /\ op.n = MaxOps
    /\ max_size = 2 /\ Len(cache) = 2
    /\ now > 0
    /\ LET i == EntryOf(op.key)
       IN  i # 0 /\ cache[i].created_at = now /\ cache[i].hits = 1

\* C15: a get returns a value only from an entry whose age does not exceed
\* the TTL it was stored with; a get that finds an entry whose age exceeds
\* its TTL returns a miss, removes that entry and no other, and adds one to
\* the miss counter and nothing to the hit counter.
C15_Expiry ==
    [][ (op'.kind = "get" /\ op'.n = op.n + 1) =>
          LET i == EntryOf(op'.key)
          IN  /\ op'.value # << >> =>
                    /\ i # 0
                    /\ Age(cache[i]) <= cache[i].ttl * TicksPerSecond
                    /\ op'.value = <<cache[i].value>>
              /\ (i # 0 /\ Age(cache[i]) > cache[i].ttl * TicksPerSecond) =>
                    /\ op'.value = << >>
                    /\ Len(cache') = Len(cache) - 1
                    /\ \A j \in 1..Len(cache') : cache'[j].key # op'.key
                    /\ \A j \in 1..Len(cache) :
                          j # i => \E m \in 1..Len(cache') : cache'[m] = cache[j]
                    /\ stats'.misses = stats.misses + 1
                    /\ stats'.hits = stats.hits
      ]_vars

\* C15 witness: a get found its key in the cache and returned a miss: the
\* entry had expired and is gone, another entry is still there.
C15_Witness ==
    /\ op.kind = "get" /\ op.found /\ op.value = << >>
    /\ EntryOf(op.key) = 0
    /\ Len(cache) = 1
    /\ stats.misses = 1

\* C17: in every reachable state the cache holds at most max_size entries,
\* no two of them under the same key.
C17_Bounded ==
    /\ Len(cache) <= max_size
    /\ \A i, j \in 1..Len(cache) : cache[i].key = cache[j].key => i = j

\* C17 witness: a set has just inserted a new key into a cache that already
\* held max_size entries, the largest size.
C17_Witness ==
    /\ op.kind = "set" /\ ~op.found /\ op.n = MaxOps
    /\ max_size = MaxCacheSize
    /\ Len(cache) = max_size
    /\ \A i \in 1..Len(cache) : cache[i].hits = 0 /\ cache[i].created_at = now

\* C16: a set that inserts a key the cache does not hold, while the cache
\* holds max_size entries, evicts exactly one entry and then inserts: the
\* entry evicted is the one least recently inserted or hit and, when the
\* cache holds more than one entry, it is not the one most recently inserted
\* or hit.
C16_Eviction ==
    [][ ( /\ op'.kind = "set"
          /\ op'.n = op.n + 1
          /\ ~op'.found
          /\ Len(cache) = max_size )
        => /\ Len(cache') = max_size
           /\ KeysOf(cache') = (KeysOf(cache) \ {Head(used)}) \cup {op'.key}
           /\ Len(used) > 1 => used[Len(used)] \in KeysOf(cache')
      ]_vars

\* Arithmetic on fractions <<num, den>>, den > 0.
SameValue(a, b) == a[1] * b[2] = b[1] * a[2]
Smaller(a, b) == a[1] * b[2] < b[1] * a[2]
Plus(a, b) == <<a[1] * b[2] + b[1] * a[2], a[2] * b[2]>>
Minus(a, b) == <<a[1] * b[2] - b[1] * a[2], a[2] * b[2]>>
Times(a, b) == <<a[1] * b[1], a[2] * b[2]>>
Larger(a, b) == IF Smaller(a, b) THEN b ELSE a

Attempts(p) == p.success_count + p.fail_count
SuccessRate(p) == <<p.success_count, Attempts(p)>>
LatencySeconds(p) == <<p.avg_response_time, LatScale>>

\* C18: an endpoint with no recorded attempt scores exactly 0.5; any other
\* scores 0.7 * successRate + 0.3 * max(0, 1 - avgLatencySeconds / 10); and
\* of two endpoints with recorded attempts and the same latency, the one
\* with the strictly higher success rate does not score less.
C18_Score ==
    \A i \in 1..Len(proxies) :
        LET p == proxies[i]
        IN  /\ Attempts(p) = 0 => SameValue(score(p), <<1, 2>>)
            /\ Attempts(p) > 0 =>
                  SameValue(score(p),
                     Plus(Times(<<7, 10>>, SuccessRate(p)),
                          Times(<<3, 10>>,
                                Larger(<<0, 1>>,
                                       Minus(<<1, 1>>,
                                             Times(LatencySeconds(p), <<1, 10>>))))))
            /\ \A j \in 1..Len(proxies) :
                  LET q == proxies[j]
                  IN  ( /\ Attempts(p) > 0 /\ Attempts(q) > 0
                        /\ p.avg_response_time = q.avg_response_time
                        /\ Smaller(SuccessRate(q), SuccessRate(p)) )
                      => ~Smaller(score(p), score(q))

\* C18 witness: after a failure report the pool holds two endpoints of the
\* same latency, above 10 seconds, and of different success rates.
C18_Witness ==
    \E i, j \in 1..Len(proxies) :
        /\ Attempts(proxies[i]) > 0 /\ Attempts(proxies[j]) > 0
        /\ proxies[i].avg_response_time = proxies[j].avg_response_time
        /\ proxies[i].avg_response_time > 10 * LatScale
        /\ Smaller(SuccessRate(proxies[j]), SuccessRate(proxies[i]))
        /\ picked.kind = "failure"

\* The endpoints select chooses among: the live ones, and all of them when
\* none is live (select revives them all).
LiveUrls ==
    IF \E i \in 1..Len(proxies) : proxies[i].is_alive
    THEN {proxies[i].url : i \in {j \in 1..Len(proxies) : proxies[j].is_alive}}
    ELSE {proxies[i].url : i \in 1..Len(proxies)}

\* Endpoint x was selected for destination d within the last 5 seconds.
Recent(d, x) ==
    /\ <<d, x>> \in DOMAIN selected_at
    /\ now - selected_at[<<d, x>>] <= 5 * TicksPerSecond

\* C19: a select for a destination returns a live endpoint; it does not
\* return one selected for that destination within the last 5 seconds if
\* some live endpoint was not, and returns one all the same if they all
\* were; the cooldown of the returned endpoint for that destination becomes
\* now, and no other endpoint's or destination's cooldown changes.
C19_Cooldown ==
    [][ ( /\ picked'.n = picked.n + 1
          /\ picked'.kind = "get"
          /\ picked'.domain # ""
          /\ proxies # << >> )
        => LET d == picked'.domain
               u == picked'.url
           IN  /\ u \in LiveUrls
               /\ (\E x \in LiveUrls : ~Recent(d, x)) => ~Recent(d, u)
               /\ u \in DOMAIN domain_cooldowns'[d]
               /\ domain_cooldowns'[d][u] = now
               /\ \A d2 \in Domains, x \in ProxyUrls :
                     <<d2, x>> # <<d, u>> =>
                        /\ x \in DOMAIN domain_cooldowns'[d2]
                              <=> x \in DOMAIN domain_cooldowns[d2]
                        /\ x \in DOMAIN domain_cooldowns[d2] =>
                              domain_cooldowns'[d2][x] = domain_cooldowns[d2][x]
      ]_vars

\* C19 witness: select has just returned, for a destination, an endpoint
\* while the other endpoint of the pool, its equal in score and ahead of it
\* in the pool, was within 5 seconds of its selection for that destination.
C19_Witness ==
    /\ picked.kind = "get"
    /\ picked.domain # ""
    /\ picked.t = now
    /\ Len(proxies) = 2
    /\ proxies[2].url = picked.url
    /\ proxies[1].is_alive /\ proxies[2].is_alive
    /\ SameValue(score(proxies[1]), score(proxies[2]))
    /\ <<picked.domain, proxies[1].url>> \in DOMAIN selected_at
    /\ selected_at[<<picked.domain, proxies[1].url>>] < now
    /\ now - selected_at[<<picked.domain, proxies[1].url>>] <= 5 * TicksPerSecond

\* C20: an identity whose failure count has exceeded the threshold of 3 is
\* invalid in every later state in which the pool holds it, whatever was
\* reported since, and no later next() returns it, also when the pool has
\* been regenerated since.
C20_Permanent ==
    \A v \in condemned :
        /\ given # <<v>>
        /\ \A i \in 1..Len(cookies) :
              cookies[i].value = v =>
                 /\ ~cookies[i].is_valid
                 /\ cookies[i].fail_count > 3

\* C20 witness: every identity of the first pool was invalidated, the pool
\* was regenerated, an identity of the new pool was invalidated in turn
\* and next() has just returned another one.
C20_Witness ==
    /\ generations = 2
    /\ given # << >>
    /\ \E v \in condemned : v[1] = 1
    /\ \E i \in 1..Len(cookies) :
          /\ cookies[i].value \in condemned
          /\ cookies[i].success_count > 0

\* Every attempt the call has made so far was answered with status 429.
AlwaysThrottled == seen \subseteq {"too_many"}

\* C21: a call whose every attempt is answered with 429 makes exactly
\* MAX_RETRIES + 1 attempts, sleeps RETRY_DELAY * 2^k seconds between
\* attempt k and attempt k + 1 (k from 0), each sleep longer than the one
\* before, and then returns the terminal failure.
C21_Backoff ==
    /\ [] ( AlwaysThrottled =>
               /\ sent <= MAX_RETRIES + 1
               /\ sent > 0 => last.retry = sent - 1
               /\ \A i \in 1..Len(delays) :
                     /\ delays[i] = RETRY_DELAY * 2 ^ (i - 1)
                     /\ i > 1 => delays[i] > delays[i - 1]
               /\ phase = "Sleeping" => Len(delays) = sent
               /\ phase \in {"Entered", "Awaiting", "Returned"}
                     => Len(delays) = retry
               /\ phase = "Returned" =>
                     /\ sent = MAX_RETRIES + 1
                     /\ Len(delays) = MAX_RETRIES
                     /\ result = "None"
               /\ sent = MAX_RETRIES + 1 => phase \in {"Awaiting", "Returned"} )
    /\ [][ ( AlwaysThrottled /\ sent > 0 /\ sent' = sent + 1 ) =>
              /\ Len(delays) = sent
              /\ now - last.t >= delays[sent] * TicksPerSecond
              /\ now - last.t <= delays[sent] * TicksPerSecond + 1
      ]_vars

\* C21 witness: a call answered with 429 at every attempt has returned.
C21_Witness ==
    /\ phase = "Returned"
    /\ AlwaysThrottled
    /\ sent > 2

\* The attempt was answered with a status from 200 to 299 and its body, if
\* any, was read.
Answered2xx(a) == a.outcome \in {"json", "html", "no_content"}

\* C22: whatever the outcomes of its attempts, a call makes at most
\* MAX_RETRIES + 1 attempts, makes no attempt after a successful (2xx) one,
\* and has returned a response after a successful attempt and the terminal
\* failure otherwise.
C22_Capped ==
    /\ sent <= MAX_RETRIES + 1
    /\ Answered2xx(last) => phase = "Returned" /\ result \in {"json", "html"}
    /\ (phase = "Returned" /\ ~Answered2xx(last)) => result = "None"

\* The reports made for the last attempt to the given pool.
ReportsTo(pool) == SelectSeq(reports, LAMBDA r : r.pool = pool)

\* C23: an attempt answered with a status from 200 to 299 makes the call
\* report one success, with the latency observed, for the proxy used and
\* one success for the identity used, and return the payload; no attempt
\* follows.
C23_Success ==
    Answered2xx(last) =>
       /\ phase = "Returned"
       /\ result \in {"json", "html"}
       /\ last.proxy # "" =>
             /\ Len(ReportsTo("proxy")) = 1
             /\ ReportsTo("proxy")[1].kind = "success"
             /\ ReportsTo("proxy")[1].who = <<last.proxy>>
             /\ ReportsTo("proxy")[1].latency > 0
       /\ last.cookie # << >> =>
             /\ Len(ReportsTo("cookie")) = 1
             /\ ReportsTo("cookie")[1].kind = "success"
             /\ ReportsTo("cookie")[1].who = last.cookie

\* The endpoint of the pool with the given url.
Endpoint(pool, u) ==
    pool[CHOOSE i \in 1..Len(pool) : pool[i].url = u]

\* C24: a 429 answer is not reported: the step that receives it makes no
\* report and changes no endpoint and no identity; and through a call
\* whose every attempt is answered with 429, no report is made, no
\* endpoint's failure counter changes, no endpoint goes from alive to dead,
\* and no identity's failure counter or validity changes.
C24_NotAFailure ==
    [][ /\ ( phase = "Awaiting" /\ last'.outcome = "too_many" )
           => /\ reports' = << >>
              /\ proxies' = proxies
              /\ cookies' = cookies
        /\ ( phase # "Idle" /\ AlwaysThrottled' )
           => /\ reports' = << >>
              /\ \A i \in 1..Len(proxies) :
                    LET before == proxies[i]
                        after  == Endpoint(proxies', before.url)
                    IN  /\ after.fail_count = before.fail_count
                        /\ before.is_alive => after.is_alive
              /\ \A i \in 1..Len(cookies) :
                    \E j \in 1..Len(cookies') :
                       /\ cookies'[j].value = cookies[i].value
                       /\ cookies'[j].fail_count = cookies[i].fail_count
                       /\ cookies'[j].is_valid = cookies[i].is_valid
      ]_vars

\* C24 witness: a call that used a cookie and proxies, its last attempt
\* through an endpoint that one more failure would mark dead, has returned
\* after nothing but 429 answers.
C24_Witness ==
    /\ phase = "Returned"
    /\ AlwaysThrottled
    /\ sent = MAX_RETRIES + 1
    /\ last.proxy # "" /\ last.cookie # << >>
    /\ Endpoint(proxies, last.proxy).fail_count = DEAD_FAILS
    /\ Endpoint(proxies, last.proxy).success_count = 1
    /\ Endpoint(proxies, last.proxy).is_alive

\* The attempt ended with a status outside 200..299 other than 429, with a
\* timeout or with a transport error.
Failed(a) == a.outcome \in {"server_error", "timeout", "error"}

\* C25: an attempt that ends with a non-2xx status other than 429, a
\* timeout or a transport error reports exactly one failure, for the proxy
\* it used, to the proxy pool (none if it used no proxy), which adds 1 to
\* that endpoint's failure counter; if it was not attempt MAX_RETRIES + 1
\* the call then sleeps RETRY_DELAY * 2^k seconds (k the attempt's number
\* from 0) and makes the next attempt, otherwise it returns the terminal
\* failure.
C25_FailureReported ==
    /\ [] ( Failed(last) =>
               /\ ReportsTo("cookie") = << >>
               /\ last.proxy = "" => ReportsTo("proxy") = << >>
               /\ last.proxy # "" =>
                     /\ Len(ReportsTo("proxy")) = 1
                     /\ ReportsTo("proxy")[1].kind = "failure"
                     /\ ReportsTo("proxy")[1].who = <<last.proxy>>
               /\ IF last.retry < MAX_RETRIES
                  THEN /\ phase \in {"Sleeping", "Entered"}
                       /\ Len(delays) = last.retry + 1
                       /\ delays[Len(delays)] = RETRY_DELAY * 2 ^ last.retry
                       /\ phase = "Entered" =>
                             /\ retry = last.retry + 1
                             /\ now - last.t
                                   >= delays[Len(delays)] * TicksPerSecond
                  ELSE /\ phase = "Returned"
                       /\ result = "None" )
    /\ [][ ( phase = "Awaiting" /\ Failed(last') /\ proxy # "" )
           => /\ Endpoint(proxies', proxy).fail_count
                    = Endpoint(proxies, proxy).fail_count + 1
              /\ Endpoint(proxies', proxy).success_count
                    = Endpoint(proxies, proxy).success_count
              /\ \A i \in 1..Len(proxies) :
                    proxies[i].url # proxy =>
                       Endpoint(proxies', proxies[i].url) = proxies[i]
      ]_vars
    /\ [][ ( phase = "Entered" /\ Failed(last) ) => sent' = sent + 1 ]_vars

\* C25 witness: a call through proxies has returned after a status 500, a
\* timeout and a transport error, the last at the attempt cap.
C25_Witness ==
    /\ phase = "Returned"
    /\ sent = MAX_RETRIES + 1
    /\ seen = {"server_error", "timeout", "error"}
    /\ last.outcome = "error"
    /\ last.proxy # ""
    /\ reports # << >>

\* C26: every call of select, reportSuccess or reportFailure that changed
\* an endpoint of the proxy pool made the change while it held the pool's
\* lock.
C26_UnderLock ==
    ( \/ picked.kind \in {"success", "failure"}
      \/ picked.kind = "get" /\ picked.url # "" )
    => picked.locked

\* C27: once initialize has run, every endpoint whose health probe was not
\* answered is still held by the pool, so that get_stats counts it in
\* "total" and it can be revived.
C27_Retained ==
    initialized =>
        /\ unresponsive \subseteq UrlsOf(proxies)
        /\ get_stats(proxies).total >= Cardinality(unresponsive)

\* C28: when the pool holds no proxy, or the call is made with use_proxy
\* False, get_proxy has returned None if it was called, the attempt is sent
\* without a proxy, no success and no failure is reported to the proxy
\* pool for it, the pool is left as it was, and an attempt answered with
\* status 200 and a readable body still makes the call return the payload.
C28_Direct ==
    ( sent > 0 /\ (proxies = << >> \/ ~use_proxy) ) =>
        /\ use_proxy => picked.kind = "get" /\ picked.url = ""
        /\ ~use_proxy => picked = NoPick
        /\ proxy = ""
        /\ last.proxy = ""
        /\ ReportsTo("proxy") = << >>
        /\ (phase = "Returned" /\ last.outcome \in {"json", "html"})
              => result = Payload(last.outcome)

\* C28 witness: a call made with use_proxy True while the pool is empty has
\* returned the payload of its first attempt.
C28_Witness ==
    /\ proxies = << >>
    /\ use_proxy
    /\ phase = "Returned"
    /\ sent = 1
    /\ last.outcome = "json"
    /\ result = "json"
    /\ picked.n = 1

\* The score the endpoint has by its counters and its latency.
Rated(p) ==
    IF Attempts(p) = 0 THEN <<1, 2>>
    ELSE Plus(Times(<<7, 10>>, SuccessRate(p)),
              Times(<<3, 10>>,
                    Larger(<<0, 1>>,
                           Minus(<<1, 1>>, Times(LatencySeconds(p), <<1, 10>>)))))

\* A step made by report_failure.
FailureReported == picked'.kind = "failure" /\ picked'.n = picked.n + 1

\* C29: report_failure adds exactly 1 to the failure counter of one
\* endpoint and changes nothing else, but that it marks the endpoint dead
\* when, after the increment, the counter is above 5 and the score is below
\* 0.3; an endpoint whose counter is then at most 5, or whose score is then
\* at least 0.3, stays as alive as it was.
C29_Threshold ==
    [][ FailureReported =>
          /\ Len(proxies') = Len(proxies)
          /\ \E i \in 1..Len(proxies) :
                LET before == proxies[i]
                    after  == proxies'[i]
                    low    == /\ after.fail_count > 5
                              /\ Smaller(Rated(after), <<3, 10>>)
                IN  /\ after.fail_count = before.fail_count + 1
                    /\ after.is_alive = (before.is_alive /\ ~low)
                    /\ [after EXCEPT !.fail_count = before.fail_count,
                                     !.is_alive = before.is_alive] = before
                    /\ \A j \in 1..Len(proxies) :
                          j # i => proxies'[j] = proxies[j]
      ]_vars

\* An endpoint whose failure counter has just passed 5 is alive, its score
\* being at least 0.3.
C29_Spared ==
    /\ picked.kind = "failure"
    /\ \E i \in 1..Len(proxies) :
          /\ proxies[i].fail_count = 6
          /\ proxies[i].is_alive
          /\ ~Smaller(Rated(proxies[i]), <<3, 10>>)

\* C29 witness: an endpoint whose failure counter has just passed 5 is
\* dead, its score being below 0.3.
C29_Witness ==
    /\ picked.kind = "failure"
    /\ \E i \in 1..Len(proxies) :
          /\ proxies[i].fail_count = 6
          /\ ~proxies[i].is_alive
          /\ Smaller(Rated(proxies[i]), <<3, 10>>)

\* The candidates get_proxy(d) has in the current state: the alive
\* endpoints, or all of them if none is alive; of these, the ones off
\* cooldown for d, unless there is none.
Candidates(d) ==
    LET all   == {proxies[i] : i \in 1..Len(proxies)}
        alive == {p \in all : p.is_alive}
        live  == IF alive = {} THEN all ELSE alive
        off   == {p \in live : ~Recent(d, p.url)}
    IN  IF d # "" /\ off # {} THEN off ELSE live

TopSize(d) == Max(5, Cardinality(Candidates(d)) \div 4)

\* The candidates that score strictly more than p, and those that do not
\* score less.
Above(d, p) == {c \in Candidates(d) : Smaller(score(p), score(c))}
NotBelow(d, p) == {c \in Candidates(d) \ {p} : ~Smaller(score(c), score(p))}

\* The urls random.choice is given by get_proxy(d) in the current state.
Offered(d) ==
    LET top == get_proxy(proxies, domain_cooldowns, d, now).top
    IN  {top[k].url : k \in 1..Len(top)}

\* C30: get_proxy returns one of its candidates, and fewer than
\* k = max(5, n \div 4) of the n candidates score more than it; and every
\* candidate that fewer than k others equal or beat is among those the
\* random choice is made from.
C30_TopK ==
    /\ [][ ( /\ picked'.kind = "get" /\ picked'.n = picked.n + 1
             /\ picked'.url # "" )
           => \E p \in Candidates(picked'.domain) :
                 /\ p.url = picked'.url
                 /\ Cardinality(Above(picked'.domain, p))
                       < TopSize(picked'.domain)
         ]_vars
    /\ []( (picked.n < MaxSelects /\ proxies # << >>) =>
             \A p \in Candidates("d1") :
                Cardinality(NotBelow("d1", p)) < TopSize("d1")
                => p.url \in Offered("d1") )

\* C30 witness: of 24 candidates the one ranked sixth has been returned;
\* or of 23 candidates, the sixth of the first call being on cooldown, the
\* one ranked fifth.
C30_Witness ==
    /\ Len(proxies) = Len(Names)
    /\ picked.kind = "get"
    /\ \/ picked.n = 1 /\ picked.url = Names[22]
       \/ /\ picked.n = 2 /\ picked.url = Names[23]
          /\ Recent("d1", Names[22])

ValuesOf(pool) == {pool[i].value : i \in 1..Len(pool)}
NoneValid(pool) == \A i \in 1..Len(pool) : ~pool[i].is_valid

\* C31: the identity next() has just returned is in the pool and valid; the
\* pool holds the same fixed number of identities in every state; and a
\* next() made when no identity is valid replaces the pool by as many new
\* identities, all valid and with zero counters, and returns one of them.
C31_Regenerated ==
    /\ [] ( /\ Len(cookies) = count
            /\ given # << >> =>
                  \E i \in 1..Len(cookies) :
                     /\ cookies[i].value = given[1]
                     /\ cookies[i].is_valid )
    /\ [][ (NoneValid(cookies) /\ given' # << >>) =>
             /\ Len(cookies') = count
             /\ ValuesOf(cookies') \cap ValuesOf(cookies) = {}
             /\ Cardinality(ValuesOf(cookies')) = count
             /\ given'[1] \in ValuesOf(cookies')
             /\ \A i \in 1..Len(cookies') :
                   /\ cookies'[i].is_valid
                   /\ cookies'[i].success_count = 0
                   /\ cookies'[i].fail_count = 0
                   /\ cookies'[i].created_at = now
       ]_vars

\* C31 witness: every identity of the first pool was invalidated and
\* next() has returned an identity of the pool generated in its place.
C31_Witness ==
    /\ generations = 2
    /\ given # << >>
    /\ given[1][1] = 2
    /\ \A i \in 1..Len(cookies) : cookies[i].value[1] = 2

\* The valid identities, and those of them that at least as good a ratio is
\* held by fewer than k others: the top k, whatever the order among equals.
Valid == {cookies[i] : i \in {j \in 1..Len(cookies) : cookies[j].is_valid}}
TopByRatio(k) ==
    { c \in Valid :
        Cardinality({d \in Valid \ {c} : ~Less(ratio(d), ratio(c))}) < k }

\* The values next() can return in the current state.
OfferedCookies ==
    LET choice == get_cookie(cookies, generations, now).choice
    IN  {choice[k].value : k \in 1..Len(choice)}

\* C32: with m > 0 valid identities, every identity among the top
\* min(3, m) by success ratio is a possible result of next(), and every
\* possible result is a valid identity that fewer than min(3, m) others
\* beat.
C32_TopThree ==
    LET k == Min(3, Cardinality(Valid))
    IN  Valid # {} =>
          /\ \A c \in TopByRatio(k) : c.value \in OfferedCookies
          /\ \A v \in OfferedCookies :
                \E c \in Valid :
                   /\ c.value = v
                   /\ Cardinality({d \in Valid : Less(ratio(c), ratio(d))}) < k

\* A step made by MemoryCache.get.
GetMade == op'.kind = "get" /\ op'.n = op.n + 1

\* C33: a get that returns a value leaves its entry last in the order, its
\* hit counter one higher, and the other entries as and in the order they
\* were; every get adds 1 to exactly one of the counters hits and misses
\* (hits if and only if it returned a value), and nothing else changes
\* them: hits + misses is the number of get calls.
C33_Counted ==
    /\ [][ GetMade =>
             /\ stats'.hits + stats'.misses = stats.hits + stats.misses + 1
             /\ stats'.hits = stats.hits + (IF op'.value # << >> THEN 1 ELSE 0)
             /\ op'.value # << >> =>
                   LET i == KeyIndex(cache, op'.key)
                   IN  /\ i # 0
                       /\ Len(cache') = Len(cache)
                       /\ cache'[Len(cache')] =
                             [cache[i] EXCEPT !.hits = @ + 1]
                       /\ SubSeq(cache', 1, Len(cache') - 1)
                             = RemoveAt(cache, i)
       ]_vars
    /\ [][ ~GetMade => stats' = stats ]_vars
    /\ [] ( stats.hits + stats.misses <= op.n )

\* C33 witness: a get has just found the entry of its key expired, after
\* one get that returned a value and one other that did not.
C33_Witness ==
    /\ op.kind = "get"
    /\ op.found
    /\ op.value = << >>
    /\ stats.hits = 1
    /\ stats.misses = 2

\* The call of task c has returned a failure to a caller that has not
\* taken it yet.
FailedCall(c) == pc[c] = "Done" /\ ~ret[c].success

OnlySuccesses == \A i \in 1..Len(cache) : cache[i].value.success

\* C34 as stated: the cache holds nothing but successes, and when a call
\* has failed the cache is as it was when the call began.
C34_Original ==
    /\ OnlySuccesses
    /\ \A c \in Runners : FailedCall(c) => cache = entered[c]

\* C34: the cache holds nothing but successes; a failed call has written
\* nothing, and has left the cache as it was when the call began but for
\* the entry of its own URL, which its lookup has removed if it found it
\* expired; a failed call that reached the strategy loop leaves no entry
\* for its URL, so that the lookup of a later call for it misses.
C34_NothingWritten ==
    /\ OnlySuccesses
    /\ \A c \in Runners :
          FailedCall(c) =>
             LET k == cache_key(url[c])
                 i == KeyIndex(entered[c], k)
             IN  /\ ~stored[c]
                 /\ \/ cache = entered[c]
                    \/ /\ looked[c]
                       /\ i # 0
                       /\ is_expired(entered[c][i], now)
                       /\ cache = RemoveAt(entered[c], i)
                 /\ looked[c] => KeyIndex(cache, k) = 0

\* C34 witness: a call has found the entry of its URL expired, and every
\* extractor has failed it: the entry is gone and nothing took its place.
C34_Witness ==
    \E c \in Runners :
        /\ FailedCall(c)
        /\ Len(invoked[c]) = Len(extractors)
        /\ KeyIndex(entered[c], cache_key(url[c])) # 0
        /\ cache = << >>

\* C35: for one attempt at most one report is made to the proxy pool; a
\* success and a failure are never both reported for it.
C35_OneReport ==
    /\ Len(ReportsTo("proxy")) <= 1
    /\ ~ \E i, j \in 1..Len(reports) :
            /\ reports[i].pool = "proxy" /\ reports[j].pool = "proxy"
            /\ reports[i].kind = "success" /\ reports[j].kind = "failure"

\* C36: a set of a key the cache holds, made while the cache holds max_size
\* entries, leaves the cache with the same keys and as many entries, and
\* every entry under another key as it was.
C36_Overwrite ==
    [][ ( /\ op'.kind = "set"
          /\ op'.n = op.n + 1
          /\ op'.found
          /\ Len(cache) = max_size )
        => /\ Len(cache') = Len(cache)
           /\ KeysOf(cache') = KeysOf(cache)
           /\ \A i \in 1..Len(cache) :
                 cache[i].key # op'.key =>
                    \E j \in 1..Len(cache') : cache'[j] = cache[i]
      ]_vars

\* The acquisition task c makes in this step succeeds.
Won(c) == admitted'[c] /\ ~admitted[c]

\* C37: while no time passes, whatever the order in which the waiting
\* calls are served, a step is the whole acquisition of at most one call;
\* a successful one takes exactly one token from the global bucket and
\* one from its caller's bucket, having found one in each; a refused one,
\* and every other step, leaves the token count of every bucket as it was.
\* No count is ever negative: the successful acquisitions made while no
\* time passes are at most as many as the tokens the global bucket held
\* at first, and for each caller as many as that caller's bucket held.
C37_Atomic ==
    /\ [] ( /\ Refilled(global_bucket, now) >= 0
            /\ \A uid \in UserIds :
                  CallerTokens(user_buckets, uid, now) >= 0 )
    /\ [][ now' = now =>
             LET winners == {c \in Tasks : Won(c)}
                 served  == {user_id[c] : c \in winners} \ {0}
             IN  /\ Cardinality(winners) <= 1
                 /\ Refilled(global_bucket', now)
                       = Refilled(global_bucket, now)
                         - Cardinality(winners) * OneToken
                 /\ \A uid \in UserIds :
                       CallerTokens(user_buckets', uid, now)
                         = CallerTokens(user_buckets, uid, now)
                           - (IF uid \in served THEN OneToken ELSE 0)
       ]_vars

\* C37 witness: at one instant a caller's call was admitted, and then the
\* call of the same caller in the other task refused, the caller's bucket
\* being empty and the global bucket not.
C37_Witness ==
    \E c, d \in Tasks :
        /\ admitted[c] /\ pc[c] = "CacheCheck"
        /\ pc[d] = "RateLimiting" /\ wake[d] > now /\ polls[d] = 1
        /\ start[c] = now /\ start[d] = now
        /\ user_id[c] # 0 /\ user_id[d] = user_id[c]
        /\ CallerTokens(user_buckets, user_id[c], now) < OneToken
        /\ Refilled(global_bucket, now) >= OneToken

\* The places of the cache that hold an entry under key k.
EntriesFor(c, k) == { i \in 1..Len(c) : c[i].key = k }

\* Task c has missed the cache and an extractor has given it a success,
\* which it has written (init.py:53) and returned.
Wrote(c) == pc[c] = "Done" /\ looked[c] /\ stored[c] /\ invoked[c] # << >>

\* C38: two overlapping extract calls for one uncached URL can both miss
\* and both invoke extractors; the cache never holds two entries for one
\* URL, a call that writes its result leaves exactly one entry for its URL,
\* which holds that result, and when both calls have finished the one entry
\* holds the result of one of them.
C38_LastWrite ==
    /\ [] ( /\ \A u \in Urls :
                  Cardinality(EntriesFor(cache, cache_key(u))) <= 1
            /\ \A c, d \in Tasks :
                  (c # d /\ Wrote(c) /\ Wrote(d) /\ url[c] = url[d]) =>
                     \E i \in 1..Len(cache) :
                        /\ EntriesFor(cache, cache_key(url[c])) = {i}
                        /\ cache[i].value \in {ret[c], ret[d]} )
    /\ [][ \A c \in Tasks :
             (pc[c] = "StrategyLoop" /\ stored'[c]) =>
                \E i \in 1..Len(cache') :
                   /\ EntriesFor(cache', cache_key(url[c])) = {i}
                   /\ cache'[i].value = ret'[c]
                   /\ cache'[i].created_at = now
                   /\ cache'[i].hits = 0
       ]_vars

\* C38 witness: both tasks have missed the cache for the same URL, each has
\* had its success from a different extractor and written it, and the cache
\* holds one entry for the URL.
C38_Witness ==
    /\ Wrote("t1") /\ Wrote("t2")
    /\ url["t1"] = url["t2"]
    /\ ret["t1"] # ret["t2"]
    /\ stats.misses = 2 /\ stats.hits = 0
    /\ Cardinality(EntriesFor(cache, cache_key(url["t1"]))) = 1

\* A step is a call of get_proxy.
GetMadeOnPool == picked'.n = picked.n + 1 /\ picked'.kind = "get"

AliveIn(pool) == { i \in 1..Len(pool) : pool[i].is_alive }

\* C39: get_proxy returns None exactly when proxies are disabled or the
\* pool is empty; while some proxy is alive it returns one that is alive and
\* revives none; when the pool is not empty and every proxy is dead it marks
\* every proxy alive and returns one of them.
C39_NeverDead ==
    [][ GetMadeOnPool =>
          /\ picked'.url = "" <=> (~USE_PROXY \/ proxies = << >>)
          /\ picked'.url # "" =>
                /\ picked'.url \in UrlsOf(proxies)
                /\ UrlsOf(proxies') = UrlsOf(proxies)
                /\ IF AliveIn(proxies) # {}
                   THEN /\ \E i \in AliveIn(proxies) :
                              proxies[i].url = picked'.url
                        /\ \A i \in 1..Len(proxies) :
                              proxies'[i].is_alive = proxies[i].is_alive
                   ELSE AliveIn(proxies') = 1..Len(proxies')
      ]_vars

\* C39 witness: both proxies of the pool were reported as failed and
\* marked dead, and the call of get_proxy that followed has returned one of
\* them, both being alive again.
C39_Witness ==
    /\ picked.kind = "get" /\ picked.url \in UrlsOf(proxies)
    /\ Len(proxies) = 2
    /\ \A i \in 1..Len(proxies) :
          proxies[i].fail_count > DEAD_FAILS /\ proxies[i].is_alive

\* C40: no step of request reports a failure to the cookie manager: every
\* cookie of the pool is in the pool after the step, with the fail_count
\* and the is_valid it had and a success_count that is no smaller, and the
\* pool has no other cookie.
C40_NeverBlamed ==
    [][ /\ \A k \in 1..Len(reports') :
              ~(reports'[k].pool = "cookie" /\ reports'[k].kind = "failure")
        /\ Len(cookies') = Len(cookies)
        /\ \A i \in 1..Len(cookies) :
              \E j \in 1..Len(cookies') :
                 /\ cookies'[j].value = cookies[i].value
                 /\ cookies'[j].fail_count = cookies[i].fail_count
                 /\ cookies'[j].is_valid = cookies[i].is_valid
                 /\ cookies'[j].success_count >= cookies[i].success_count
      ]_vars

\* C40 witness: a call made with use_cookie has returned None after its
\* last retry; one of its attempts had status 200, for which a cookie was
\* credited, and every cookie is valid with no failure counted.
C40_Witness ==
    /\ phase = "Returned" /\ result = "None"
    /\ use_cookie /\ retry = MAX_RETRIES
    /\ seen \cap {"server_error", "timeout", "error"} # {}
    /\ \E i \in 1..Len(cookies) : cookies[i].success_count > 0
    /\ \A i \in 1..Len(cookies) :
          cookies[i].fail_count = 0 /\ cookies[i].is_valid


====
